---- MODULE Spec2Model ----
(***************************************************************************)
(* patchmycode: the Process Supervisor (PatchClient.fixIssue) and the Pass *)
(* Sequencer (MultiPassProcessor).                                         *)
(*                                                                         *)
(* Text is a sequence of segments: a template literal `${a}-${b}` is the   *)
(* concatenation of the texts of its parts, so that "the message contains  *)
(* the token" and "the two branch names are equal" are computed.           *)
(* Time is in milliseconds, as in the setTimeout/setInterval calls.        *)
(***************************************************************************)
EXTENDS Integers, Sequences, FiniteSets, TLC

VARIABLES
    pc,                       \* position of the running fixIssue invocation
    now,                      \* Date.now() relative to the spawn of the agent
    timers,                   \* deadline of each timer handle, or Idle
    graceTimers,              \* deadlines of the pending SIGKILL follow-ups
    cleared,                  \* number of clearTimeout/clearInterval calls per handle
    firedAfterClose,          \* a callback of a timer handle ran after 'close'
    aiderProcess,             \* "none", "running", "killed" (SIGKILL delivered), "closed"
    restartProcess,           \* "none", "running", "closed"
    lastActivity,
    consecutiveHealthChecks,
    exitDueToUpgrade,
    noticeSeen,               \* a stdout chunk carried the upgrade notice
    restartOutput,            \* the restarted process has printed something
    pendingProbes,            \* sendInputToAider('\n') promises not yet settled
    signals,                  \* kill() calls made so far: [by, sig, at]
    spawns,                   \* spawn('aider', ...) calls made so far
    exitCode,                 \* value the close promise resolved with, or NoCode
    timeoutSecs,              \* this.options.timeout
    frame,                    \* arguments of the running fixIssue invocation
    uniqueBranchName,
    workTree,                 \* files of issueDir: untracked, staged by git add, in the commit
    stagedChanges,            \* files of `git diff --name-status HEAD`
    result,                   \* what fixIssue returned (kind "returned") or threw
    commands,                 \* executeCommand calls of the running invocation
    remoteBranches,           \* branches that exist on origin
    authToken,
    issueLabels,
    enableMultiPass,          \* config.enableMultiPass
    seqPc,                    \* position of MultiPassProcessor.process
    primaryResult,
    secondaryResult,
    processResult,            \* what process returned (or kind "rejected")
    progressComments,         \* github.addIssueComment calls made by the sequencer
    initCalls,                \* modes whose PatchClient.init() has been called
    tempDirs,                 \* modes whose PatchClient holds a directory made by mkdtemp
    stdinWritable,            \* aiderProcess.stdin.writable
    chunks,                   \* stdout chunks the prompt handlers have seen, in order
    sends,                    \* sendInputToAider calls: [for, input, stage, due, rejected]
    stdinWrites,              \* aiderProcess.stdin.write calls, in order: [for, text, delivered]
    processCwd,               \* process.cwd() of the Node process
    invocations,              \* concurrent fixIssue invocations: position of each
    executed,                 \* commands run by the concurrent invocations: [by, args, cwd]
    config,                   \* the configuration read from the environment
    issueDetails,             \* github.getIssueDetails(): title, body, labels
    comment,                  \* context.payload.comment.body of the webhook
    modeResult,               \* what a ModeSelector method returned: [by, result]
    replies,                  \* github.addIssueComment calls of the webhook handlers
    fixRuns                   \* processIssueWithSmartMode calls started

supLocals == <<now, timers, graceTimers, cleared, firedAfterClose, aiderProcess,
               restartProcess, lastActivity, consecutiveHealthChecks, exitDueToUpgrade,
               noticeSeen, restartOutput, pendingProbes, signals, spawns, exitCode,
               timeoutSecs>>

supVars == <<pc, supLocals>>

fixVars == <<frame, uniqueBranchName, workTree, stagedChanges, result, commands, remoteBranches>>

seqVars == <<authToken, issueLabels, enableMultiPass, seqPc, primaryResult, secondaryResult,
             processResult, progressComments, initCalls, tempDirs>>

promptVars == <<stdinWritable, chunks, sends, stdinWrites>>

parVars == <<processCwd, invocations, executed>>

selVars == <<config, issueDetails, comment, modeResult, replies, fixRuns>>

vars == <<supVars, fixVars, seqVars, promptVars, parVars, selVars>>

----------------------------------------------------------------------------
(* Constants of the supervisor *)

ActivityIntervalMs == 30000
ActivityThresholdSecs == 30
HealthCheckIntervalMs == 60000
HealthCheckThresholdSecs == 60
MaxHealthChecks == 5
GracePeriodMs == 5000
DefaultTimeoutSecs == 600
maxTimeInMinutes == 30

\* values of config.patchTimeout / options.timeout that are explored
TimeoutChoices == {120, DefaultTimeoutSecs}

Idle == -1
NoCode == -1
ExitCodes == {0, 1}

TimerHandles == {"activityInterval", "healthCheckInterval", "timeout", "absoluteMaxTimeout"}

Min(S) == CHOOSE x \in S : \A y \in S : x <= y

\* spawn('aider', args, {cwd: issueDir, env: processEnv})
AiderSpawn == [command |-> "aider", args |-> "args", cwd |-> "issueDir", env |-> "processEnv"]

\* a restart that drops the arguments of the first spawn
RestartSpawn_WithoutArgs == [command |-> "aider", args |-> "none", cwd |-> "issueDir", env |-> "processEnv"]

\* the restart after an upgrade
RestartSpawn == [command |-> "aider", args |-> "args", cwd |-> "issueDir", env |-> "processEnv"]

\* (Date.now() - lastActivity) / 1000 > secs; a timer never fires early but
\* may fire late, so the comparison at the exact boundary can go either way
Inactive(secs, late) ==
    \/ now - lastActivity > secs * 1000
    \/ now - lastActivity = secs * 1000 /\ late

Alive(p) == p \in {"running", "killed"}

\* aiderProcess.kill(sig): the signal is delivered when the process still exists
Kill(by, sig) ==
    /\ signals' = Append(signals, [by |-> by, sig |-> sig, at |-> now, delivered |-> Alive(aiderProcess)])
    /\ aiderProcess' = IF sig = "SIGKILL" /\ Alive(aiderProcess) THEN "killed" ELSE aiderProcess

Due(h) == timers[h] # Idle /\ timers[h] <= now

NoteFired == firedAfterClose' = (firedAfterClose \/ aiderProcess = "closed")

----------------------------------------------------------------------------
(* Text, configuration and the values passed between the components *)

RECURSIVE Join(_)
\* args.join(' ') for a list of texts
Join(args) ==
    IF args = <<>> THEN <<>>
    ELSE IF Len(args) = 1 THEN Head(args)
    ELSE Head(args) \o <<" ">> \o Join(Tail(args))

Contains(text, segment) == \E i \in DOMAIN text : text[i] = segment

Range(seq) == {seq[i] : i \in DOMAIN seq}

\* the concatenation of the two lists, duplicates kept
Dedupe_KeepingDuplicates(list) == list

RECURSIVE Dedupe(_)
\* [...new Set(list)]: the first occurrence of each element, in order
Dedupe(list) ==
    IF list = <<>> THEN <<>>
    ELSE LET init == Dedupe(SubSeq(list, 1, Len(list) - 1))
             last == list[Len(list)]
         IN IF last \in Range(init) THEN init ELSE Append(init, last)

NoText == <<>>
NoToken == ""
AuthTokens == {NoToken, "ghs_tokenA", "ghs_tokenB"}

\* github.getRepositoryCloneUrl(), as new URL(repoUrl) splits it
repoUrl == [protocol |-> "https:", host |-> "github.com", pathname |-> "/owner/repo.git"]
issueDir == <<"issueDir">>
issueNumberOfIssue == "12"
\* `issue-${issueDetails.issue_number}`
baseBranchName == <<"issue-", issueNumberOfIssue>>

\* Math.random().toString(36).substring(2, 8)
UniqueHashes == {"k3x9qa", "p07zme"}

\* config defaults
DefaultConfig == [defaultMode |-> "patcher",
                  defaultMultiPassSequence |-> <<"architect", "patcher">>]
\* the settings the sequencer is run with
SequencerConfigChoices ==
    {DefaultConfig,
     [defaultMode |-> "reviewer", defaultMultiPassSequence |-> <<"patcher", "architect">>]}
\* getEnv('PATCH_DEFAULT_MODE', 'patcher')
defaultMode == config.defaultMode
\* getArrayEnv('PATCH_MULTIPASS_SEQUENCE', ['architect', 'patcher'])
defaultMultiPassSequence == config.defaultMultiPassSequence
\* a catalog that lists patcher before architect
ModeCatalog_PatcherFirst ==
    <<"patcher", "architect", "hybrid:security", "hybrid:performance", "hybrid:typescript">>
ModeCatalog == <<"architect", "patcher", "hybrid:security", "hybrid:performance", "hybrid:typescript">>
modeLabels ==
    [m \in Range(ModeCatalog) |->
        CASE m = "architect"          -> {"patchmycode:architect", "major-change", "refactor"}
          [] m = "patcher"            -> {"patchmycode:patcher", "bugfix", "minor-fix"}
          [] m = "hybrid:security"    -> {"security", "vulnerability"}
          [] m = "hybrid:performance" -> {"performance", "optimization"}
          [] m = "hybrid:typescript"  -> {"typescript-migration", "type-safety"}]

IsHybrid(m) == m \in {"hybrid:security", "hybrid:performance", "hybrid:typescript"}
\* the test for the short marker only
HasMultipassLabel_ShortMarkerOnly(labels) == \E l \in Range(labels) : l = "multipass"
HasMultipassLabel(labels) == \E l \in Range(labels) : l \in {"multipass", "patchmycode:multipass"}

NoSelection == [found |-> FALSE, primaryMode |-> "", secondaryMode |-> "", needsMultiPass |-> FALSE]

\* a selector that sequences every non-hybrid mode that comes with a marker
selectModeFromLabels_SequencingAnyMode(labels) ==
    LET matching == {i \in DOMAIN ModeCatalog : modeLabels[ModeCatalog[i]] \cap Range(labels) # {}}
    IN IF labels = <<>> THEN NoSelection
       ELSE IF matching # {}
       THEN LET mode == ModeCatalog[Min(matching)]
            IN IF IsHybrid(mode)
               THEN [found |-> TRUE, primaryMode |-> mode, secondaryMode |-> "", needsMultiPass |-> FALSE]
               ELSE IF HasMultipassLabel(labels)
               THEN [found |-> TRUE, primaryMode |-> mode, secondaryMode |-> "patcher",
                     needsMultiPass |-> TRUE]
               ELSE [found |-> TRUE, primaryMode |-> mode, secondaryMode |-> "", needsMultiPass |-> FALSE]
       ELSE IF HasMultipassLabel(labels)
       THEN [found |-> TRUE, primaryMode |-> defaultMultiPassSequence[1],
             secondaryMode |-> defaultMultiPassSequence[2], needsMultiPass |-> TRUE]
       ELSE NoSelection

\* ModeSelector.selectModeFromLabels
selectModeFromLabels(labels) ==
    LET matching == {i \in DOMAIN ModeCatalog : modeLabels[ModeCatalog[i]] \cap Range(labels) # {}}
    IN IF labels = <<>> THEN NoSelection
       ELSE IF matching # {}
       THEN LET mode == ModeCatalog[Min(matching)]
            IN IF IsHybrid(mode)
               THEN [found |-> TRUE, primaryMode |-> mode, secondaryMode |-> "", needsMultiPass |-> FALSE]
               ELSE IF HasMultipassLabel(labels) /\ mode = "architect"
               THEN [found |-> TRUE, primaryMode |-> "architect", secondaryMode |-> "patcher",
                     needsMultiPass |-> TRUE]
               ELSE [found |-> TRUE, primaryMode |-> mode, secondaryMode |-> "", needsMultiPass |-> FALSE]
       ELSE IF HasMultipassLabel(labels)
       THEN [found |-> TRUE, primaryMode |-> defaultMultiPassSequence[1],
             secondaryMode |-> defaultMultiPassSequence[2], needsMultiPass |-> TRUE]
       ELSE NoSelection

\* no webhook has been delivered and no ModeSelector method called
NoIssue == [title |-> <<>>, body |-> <<>>, labels |-> <<>>]
NoModeResult == [by |-> "none", result |-> NoSelection]
SelectorIdle ==
    /\ config = DefaultConfig
    /\ issueDetails = NoIssue
    /\ comment = <<>>
    /\ modeResult = NoModeResult
    /\ replies = <<>>
    /\ fixRuns = 0

\* issue label lists that are explored
LabelChoices == {<<>>, <<"bugfix">>, <<"refactor">>, <<"refactor", "multipass">>,
                 <<"patchmycode:multipass">>, <<"question">>}

\* origin before the run: the default branch, and possibly a branch that an
\* earlier run on the same issue left behind under the mode-prefixed name
RemoteChoices == {{<<"main">>}, {<<"main">>, <<"architect", "-", "issue-", issueNumberOfIssue>>}}

\* outcomes of `git diff --name-status HEAD` that are explored
StagedChoices == {<<>>, <<"a.ts">>, <<"a.ts", "b.ts">>, <<"b.ts", "c.ts">>}

\* PatchResult; kind tells whether fixIssue has returned it, thrown, or neither yet
\* path.join(issueDir, 'ISSUE.md')
IssueFile == "ISSUE.md"

\* the directory before the clone
EmptyTree == [untracked |-> {}, staged |-> {}, committed |-> {}]

\* files the agent has created and not added to the index
CreatedChoices == {{}, {"new.ts"}}

NoPatchResult == [kind |-> "none", success |-> FALSE, message |-> NoText, changes |-> <<>>,
                  branchName |-> NoText]
PatchResult(success, message, changes, branchName) ==
    [kind |-> "returned", success |-> success, message |-> message, changes |-> changes,
     branchName |-> branchName]
Thrown(message) ==
    [kind |-> "thrown", success |-> FALSE, message |-> message, changes |-> <<>>,
     branchName |-> NoText]

\* ProcessResult
NoProcessResult == [kind |-> "none", success |-> FALSE, message |-> NoText, changes |-> <<>>,
                    modesUsed |-> <<>>, branchName |-> NoText]
ProcessResult(success, message, changes, modesUsed, branchName) ==
    [kind |-> "returned", success |-> success, message |-> message, changes |-> changes,
     modesUsed |-> modesUsed, branchName |-> branchName]
Rejected(message) ==
    [kind |-> "rejected", success |-> FALSE, message |-> message, changes |-> <<>>,
     modesUsed |-> <<>>, branchName |-> NoText]

\* a progressCallback is given by the status at which it throws
NeverThrows == "never"
\* the callback of the sequencer only logs
createProgressCallbackHandler == NeverThrows
\* the Error a failing progressCallback throws
CallbackError == <<"progressCallback failed">>

NoFrame == [mode |-> "", branchName |-> NoText, baseBranch |-> NoText,
            progressCallback |-> NeverThrows]

\* the progressCallback calls fixIssue makes at each of its positions
StatusAt(position) ==
    CASE position = "entry"   -> {"starting"}
      [] position = "clone"   -> {"branch_generated", "cloning"}
      [] position = "fetch"   -> {"checkout"}
      [] position = "branch"  -> {"branch"}
      [] position = "spawn"   -> {"aider_start"}
      [] position = "harvest" -> {"aider_complete"}
      [] position = "add"     -> {"staging"}
      [] position = "commit"  -> {"committing"}
      [] position = "push"    -> {"pushing"}
      [] OTHER                -> {}

\* progressCallback(status, ...) throws
Throws(status) == frame.progressCallback = status

\* branchName.match(/issue-(\d+)/): the digits that follow "issue-"
IssueNumberOf(branchName) ==
    LET at == {i \in DOMAIN branchName : branchName[i] = "issue-" /\ i < Len(branchName)}
    IN IF at = {} THEN "" ELSE branchName[Min(at) + 1]

\* `${mode}-${uniqueHash}-${issueNumber}`, or with the tail of Date.now()
UniqueBranchName(mode, hash, branchName) ==
    IF IssueNumberOf(branchName) # ""
    THEN <<mode, "-", hash, "-", IssueNumberOf(branchName)>>
    ELSE <<mode, "-", hash, "-", "timestamp">>

\* `${url.protocol}//${authToken}@${url.host}${url.pathname}`
GitUrl(token) ==
    IF token # NoToken
    THEN <<repoUrl.protocol, "//", token, "@", repoUrl.host, repoUrl.pathname>>
    ELSE <<repoUrl.protocol, "//", repoUrl.host, repoUrl.pathname>>

\* the Error executeCommand rejects with when the command exits with a code other than 0
CommandFailed(args) ==
    <<"Command failed with exit code ", "128", ": ", "git", " ">> \o Join(args)

\* the catch block of fixIssue
CaughtResult(message) == PatchResult(FALSE, <<"Error: ">> \o message, <<>>, NoText)

----------------------------------------------------------------------------
(* fixIssue: spawning the agent and arming the timers *)

Spawn ==
    /\ pc = "spawn" /\ ~\E status \in StatusAt(pc) : Throws(status)
    /\ pc' = "waiting"
    /\ aiderProcess' = "running"
    /\ spawns' = Append(spawns, AiderSpawn)
    /\ now' = 0
    /\ lastActivity' = 0
    /\ consecutiveHealthChecks' = 0
    /\ exitDueToUpgrade' = FALSE
    /\ timers' = [activityInterval    |-> ActivityIntervalMs,
                  healthCheckInterval |-> HealthCheckIntervalMs,
                  timeout             |-> timeoutSecs * 1000,
                  absoluteMaxTimeout  |-> maxTimeInMinutes * 60 * 1000]
    /\ UNCHANGED <<graceTimers, cleared, firedAfterClose, restartProcess, noticeSeen,
                   restartOutput, pendingProbes, signals, exitCode, timeoutSecs, fixVars, seqVars, promptVars, parVars, selVars>>

(* stdout 'data' of the agent *)
StdoutData ==
    /\ pc = "waiting" /\ aiderProcess = "running"
    /\ \E upgrade \in BOOLEAN :
        /\ exitDueToUpgrade' = (exitDueToUpgrade \/ upgrade)
        /\ noticeSeen' = (noticeSeen \/ upgrade)
    /\ lastActivity' = now
    /\ consecutiveHealthChecks' = 0
    /\ UNCHANGED <<pc, now, timers, graceTimers, cleared, firedAfterClose, aiderProcess,
                   restartProcess, restartOutput, pendingProbes, signals, spawns, exitCode,
                   timeoutSecs, fixVars, seqVars, promptVars, parVars, selVars>>

(* stderr 'data' of the agent *)
StderrData ==
    /\ pc = "waiting" /\ aiderProcess = "running"
    /\ lastActivity' = now
    /\ lastActivity # now
    /\ UNCHANGED <<pc, now, timers, graceTimers, cleared, firedAfterClose, aiderProcess,
                   restartProcess, consecutiveHealthChecks, exitDueToUpgrade, noticeSeen,
                   restartOutput, pendingProbes, signals, spawns, exitCode, timeoutSecs, fixVars, seqVars, promptVars, parVars, selVars>>

(* activityInterval callback: reports, never acts *)
ActivityTick ==
    /\ Due("activityInterval")
    /\ timers' = [timers EXCEPT !["activityInterval"] = now + ActivityIntervalMs]
    /\ NoteFired
    /\ UNCHANGED <<pc, now, graceTimers, cleared, aiderProcess, restartProcess, lastActivity,
                   consecutiveHealthChecks, exitDueToUpgrade, noticeSeen, restartOutput,
                   pendingProbes, signals, spawns, exitCode, timeoutSecs, fixVars, seqVars, promptVars, parVars, selVars>>

(* healthCheckInterval callback *)
HealthCheckTick ==
    /\ Due("healthCheckInterval")
    /\ timers' = [timers EXCEPT !["healthCheckInterval"] = now + HealthCheckIntervalMs]
    /\ NoteFired
    /\ \E late \in BOOLEAN :
        IF Alive(aiderProcess) /\ Inactive(HealthCheckThresholdSecs, late)
        THEN /\ pendingProbes' = pendingProbes + 1
             /\ IF consecutiveHealthChecks >= MaxHealthChecks
                THEN /\ Kill("healthCheck", "SIGTERM")
                     /\ graceTimers' = graceTimers \cup {now + GracePeriodMs}
                ELSE UNCHANGED <<signals, aiderProcess, graceTimers>>
        ELSE UNCHANGED <<pendingProbes, signals, aiderProcess, graceTimers>>
    /\ UNCHANGED <<pc, now, cleared, restartProcess, lastActivity, consecutiveHealthChecks,
                   exitDueToUpgrade, noticeSeen, restartOutput, spawns, exitCode, timeoutSecs, fixVars, seqVars, promptVars, parVars, selVars>>

(* .then of sendInputToAider('\n') in the health check *)
ProbeSent ==
    /\ pendingProbes > 0
    /\ pendingProbes' = pendingProbes - 1
    /\ consecutiveHealthChecks' = consecutiveHealthChecks + 1
    /\ UNCHANGED <<pc, now, timers, graceTimers, cleared, firedAfterClose, aiderProcess,
                   restartProcess, lastActivity, exitDueToUpgrade, noticeSeen, restartOutput,
                   signals, spawns, exitCode, timeoutSecs, fixVars, seqVars, promptVars, parVars, selVars>>

(* the 5 second follow-up of the health check's SIGTERM *)
GraceKill ==
    /\ \E d \in graceTimers :
        /\ d <= now
        /\ graceTimers' = graceTimers \ {d}
    /\ IF Alive(aiderProcess)
       THEN Kill("healthCheck", "SIGKILL")
       ELSE UNCHANGED <<signals, aiderProcess>>
    /\ UNCHANGED <<pc, now, timers, cleared, firedAfterClose, restartProcess, lastActivity,
                   consecutiveHealthChecks, exitDueToUpgrade, noticeSeen, restartOutput,
                   pendingProbes, spawns, exitCode, timeoutSecs, fixVars, seqVars, promptVars, parVars, selVars>>

(* timeout callback *)
HardTimeout ==
    /\ Due("timeout")
    /\ timers' = [timers EXCEPT !["timeout"] = Idle]
    /\ NoteFired
    /\ Kill("timeout", "SIGTERM")
    /\ UNCHANGED <<pc, now, graceTimers, cleared, restartProcess, lastActivity,
                   consecutiveHealthChecks, exitDueToUpgrade, noticeSeen, restartOutput,
                   pendingProbes, spawns, exitCode, timeoutSecs, fixVars, seqVars, promptVars, parVars, selVars>>

(* absoluteMaxTimeout callback *)
AbsoluteMax ==
    /\ Due("absoluteMaxTimeout")
    /\ timers' = [timers EXCEPT !["absoluteMaxTimeout"] = Idle]
    /\ NoteFired
    /\ Kill("absoluteMax", "SIGKILL")
    /\ UNCHANGED <<pc, now, graceTimers, cleared, restartProcess, lastActivity,
                   consecutiveHealthChecks, exitDueToUpgrade, noticeSeen, restartOutput,
                   pendingProbes, spawns, exitCode, timeoutSecs, fixVars, seqVars, promptVars, parVars, selVars>>

\* a close handler that leaks the health-check interval
ClearedOnClose_LeakingHealthCheck == TimerHandles \ {"healthCheckInterval"}

\* clearTimeout(timeout); clearTimeout(absoluteMaxTimeout);
\* clearInterval(activityInterval); clearInterval(healthCheckInterval)
ClearedOnClose == TimerHandles

(* aiderProcess 'close' *)
Close ==
    /\ pc = "waiting" /\ Alive(aiderProcess)
    /\ aiderProcess' = "closed"
    /\ timers' = [h \in TimerHandles |-> IF h \in ClearedOnClose THEN Idle ELSE timers[h]]
    /\ cleared' = [h \in TimerHandles |-> IF h \in ClearedOnClose THEN cleared[h] + 1 ELSE cleared[h]]
    /\ IF exitDueToUpgrade
       THEN /\ spawns' = Append(spawns, RestartSpawn)
            /\ restartProcess' = "running"
            /\ UNCHANGED <<pc, exitCode>>
       ELSE /\ \E code \in ExitCodes : exitCode' = code
            /\ pc' = "harvest"
            /\ UNCHANGED <<spawns, restartProcess>>
    /\ UNCHANGED <<now, graceTimers, firedAfterClose, lastActivity, consecutiveHealthChecks,
                   exitDueToUpgrade, noticeSeen, restartOutput, pendingProbes, signals,
                   timeoutSecs, fixVars, seqVars, promptVars, parVars, selVars>>

(* stdout/stderr 'data' of the restarted process *)
RestartData ==
    /\ restartProcess = "running"
    /\ ~restartOutput
    /\ restartOutput' = TRUE
    /\ UNCHANGED <<pc, now, timers, graceTimers, cleared, firedAfterClose, aiderProcess,
                   restartProcess, lastActivity, consecutiveHealthChecks, exitDueToUpgrade,
                   noticeSeen, pendingProbes, signals, spawns, exitCode, timeoutSecs, fixVars, seqVars, promptVars, parVars, selVars>>

(* restartProcess 'close' *)
RestartClose ==
    /\ pc = "waiting" /\ restartProcess = "running"
    /\ restartProcess' = "closed"
    /\ \E code \in ExitCodes : exitCode' = code
    /\ pc' = "harvest"
    /\ UNCHANGED <<now, timers, graceTimers, cleared, firedAfterClose, aiderProcess,
                   lastActivity, consecutiveHealthChecks, exitDueToUpgrade, noticeSeen,
                   restartOutput, pendingProbes, signals, spawns, timeoutSecs, fixVars, seqVars, promptVars, parVars, selVars>>

Deadlines ==
    {timers[h] : h \in {k \in TimerHandles : timers[k] # Idle}} \cup graceTimers
        \cup {sends[k].due : k \in {j \in DOMAIN sends : sends[j].stage = "delay"}}

(* the event loop is idle until the next timer is due *)
AdvanceTime ==
    /\ Deadlines # {}
    /\ Min(Deadlines) > now
    /\ pendingProbes = 0
    /\ \A k \in DOMAIN sends : sends[k].stage \notin {"cleared", "written"}
    /\ aiderProcess # "killed"
    /\ now' = Min(Deadlines)
    /\ UNCHANGED <<pc, timers, graceTimers, cleared, firedAfterClose, aiderProcess,
                   restartProcess, lastActivity, consecutiveHealthChecks, exitDueToUpgrade,
                   noticeSeen, restartOutput, pendingProbes, signals, spawns, exitCode,
                   timeoutSecs, fixVars, seqVars, promptVars, parVars, selVars>>

----------------------------------------------------------------------------
(* fixIssue: the version-control steps around the agent run *)

\* the locals of fixIssue are fresh in every invocation
CallFixIssue(mode, branchName, baseBranch, progressCallback) ==
    /\ pc' = "entry"
    /\ frame' = [mode |-> mode, branchName |-> branchName, baseBranch |-> baseBranch,
                 progressCallback |-> progressCallback]
    /\ uniqueBranchName' = NoText
    /\ workTree' = EmptyTree
    /\ stagedChanges' = <<>>
    /\ result' = NoPatchResult
    /\ commands' = <<>>
    /\ now' = 0
    /\ timers' = [h \in TimerHandles |-> Idle]
    /\ graceTimers' = {}
    /\ cleared' = [h \in TimerHandles |-> 0]
    /\ firedAfterClose' = FALSE
    /\ aiderProcess' = "none"
    /\ restartProcess' = "none"
    /\ lastActivity' = 0
    /\ consecutiveHealthChecks' = 0
    /\ exitDueToUpgrade' = FALSE
    /\ noticeSeen' = FALSE
    /\ restartOutput' = FALSE
    /\ pendingProbes' = 0
    /\ signals' = <<>>
    /\ spawns' = <<>>
    /\ exitCode' = NoCode
    /\ UNCHANGED <<timeoutSecs, remoteBranches>>

\* the catch block: progressCallback('error', ...), then the failure is returned
CaughtError(message) ==
    IF Throws("error")
    THEN result' = Thrown(CallbackError) /\ pc' = "threw"
    ELSE result' = CaughtResult(message) /\ pc' = "done"

\* executeCommand('git', args) rejected
Caught(args) == CaughtError(CommandFailed(args))

(* a progressCallback call of the current position throws: outside the try *)
(* ('starting') fixIssue rejects, inside it the catch block takes over      *)
CallbackThrew ==
    /\ \E status \in StatusAt(pc) : Throws(status)
    /\ IF pc = "entry"
       THEN result' = Thrown(CallbackError) /\ pc' = "threw"
       ELSE CaughtError(CallbackError)
    /\ UNCHANGED <<supLocals, frame, uniqueBranchName, workTree, stagedChanges, commands, remoteBranches,
                   seqVars, promptVars, parVars, selVars>>

(* entry: mkdir of the issue directory (outside the try), branch name derivation *)
FixEntry ==
    /\ pc = "entry" /\ ~\E status \in StatusAt(pc) : Throws(status)
    /\ \E mkdirOk \in BOOLEAN :
        IF mkdirOk
        THEN /\ \E uniqueHash \in UniqueHashes :
                  uniqueBranchName' = UniqueBranchName(frame.mode, uniqueHash, frame.branchName)
             /\ pc' = "clone"
             /\ UNCHANGED result
        ELSE /\ pc' = "threw"
             /\ result' = Thrown(<<"ENOSPC: no space left on device, mkdir">>)
             /\ UNCHANGED uniqueBranchName
    /\ UNCHANGED <<supLocals, frame, workTree, stagedChanges, commands, remoteBranches, seqVars, promptVars, parVars, selVars>>

CloneArgs == <<<<"clone">>, <<"--depth">>, <<"1">>, GitUrl(authToken), issueDir>>

(* git clone --depth 1 gitUrl issueDir *)
Clone ==
    /\ pc = "clone" /\ ~\E status \in StatusAt(pc) : Throws(status)
    /\ commands' = Append(commands, CloneArgs)
    /\ \E ok \in BOOLEAN :
        IF ok
        THEN /\ pc' = IF frame.baseBranch # NoText THEN "fetch" ELSE "branch"
             /\ UNCHANGED result
        ELSE Caught(CloneArgs)
    /\ UNCHANGED <<supLocals, frame, uniqueBranchName, workTree, stagedChanges, remoteBranches, seqVars, promptVars, parVars, selVars>>

FetchArgs == <<<<"fetch">>, <<"origin">>, frame.baseBranch>>

(* git fetch origin baseBranch: fails when origin has no such branch *)
Fetch ==
    /\ pc = "fetch" /\ ~\E status \in StatusAt(pc) : Throws(status)
    /\ commands' = Append(commands, FetchArgs)
    /\ \E ok \in (IF frame.baseBranch \in remoteBranches THEN BOOLEAN ELSE {FALSE}) :
        IF ok
        THEN pc' = "checkout" /\ UNCHANGED result
        ELSE Caught(FetchArgs)
    /\ UNCHANGED <<supLocals, frame, uniqueBranchName, workTree, stagedChanges, remoteBranches, seqVars, promptVars, parVars, selVars>>

CheckoutArgs == <<<<"checkout">>, frame.baseBranch>>

(* git checkout baseBranch *)
Checkout ==
    /\ pc = "checkout"
    /\ commands' = Append(commands, CheckoutArgs)
    /\ \E ok \in BOOLEAN :
        IF ok
        THEN pc' = "branch" /\ UNCHANGED result
        ELSE Caught(CheckoutArgs)
    /\ UNCHANGED <<supLocals, frame, uniqueBranchName, workTree, stagedChanges, remoteBranches, seqVars, promptVars, parVars, selVars>>

BranchArgs == <<<<"checkout">>, <<"-b">>, uniqueBranchName>>

(* git checkout -b uniqueBranchName, then ISSUE.md and the arguments of the agent *)
Branch ==
    /\ pc = "branch" /\ ~\E status \in StatusAt(pc) : Throws(status)
    /\ commands' = Append(commands, BranchArgs)
    /\ \E ok \in BOOLEAN :
        IF ok
        THEN /\ pc' = "spawn"
             /\ workTree' = [workTree EXCEPT !.untracked = {IssueFile}]
             /\ UNCHANGED result
        ELSE Caught(BranchArgs) /\ UNCHANGED workTree
    /\ UNCHANGED <<supLocals, frame, uniqueBranchName, stagedChanges, remoteBranches, seqVars, promptVars, parVars, selVars>>

NoChangesMessage == <<"No changes made. The AI couldn't find a solution or encountered an error.">>

(* getStagedChanges without the check of stagedChanges.length *)
Harvest_StagingEmptyDiff ==
    /\ pc = "harvest" /\ ~\E status \in StatusAt(pc) : Throws(status)
    /\ \E created \in CreatedChoices :
        workTree' = [workTree EXCEPT !.untracked = @ \cup created]
    /\ \E diff \in StagedChoices :
        /\ stagedChanges' = diff
        /\ pc' = "add"
        /\ UNCHANGED result
    /\ UNCHANGED <<supLocals, frame, uniqueBranchName, commands, remoteBranches, seqVars, promptVars, parVars, selVars>>

(* getStagedChanges after the agent has exited; the empty diff is the negative result *)
Harvest ==
    /\ pc = "harvest" /\ ~\E status \in StatusAt(pc) : Throws(status)
    /\ \E created \in CreatedChoices :
        workTree' = [workTree EXCEPT !.untracked = @ \cup created]
    /\ \E diff \in StagedChoices :
        /\ stagedChanges' = diff
        /\ IF diff = <<>>
           THEN IF Throws("no_changes")
                THEN CaughtError(CallbackError)
                ELSE /\ result' = PatchResult(FALSE, NoChangesMessage, <<>>, uniqueBranchName)
                     /\ pc' = "done"
           ELSE /\ pc' = "add"
                /\ UNCHANGED result
    /\ UNCHANGED <<supLocals, frame, uniqueBranchName, commands, remoteBranches, seqVars, promptVars, parVars, selVars>>

AddArgs == <<<<"add">>, <<".">>>>

(* git add . *)
Stage ==
    /\ pc = "add" /\ ~\E status \in StatusAt(pc) : Throws(status)
    /\ commands' = Append(commands, AddArgs)
    /\ \E ok \in BOOLEAN :
        IF ok
        THEN /\ pc' = "commit"
             /\ workTree' = [workTree EXCEPT !.untracked = {},
                                              !.staged = Range(stagedChanges) \cup workTree.untracked]
             /\ UNCHANGED result
        ELSE Caught(AddArgs) /\ UNCHANGED workTree
    /\ UNCHANGED <<supLocals, frame, uniqueBranchName, stagedChanges, remoteBranches, seqVars, promptVars, parVars, selVars>>

CommitArgs == <<<<"commit">>, <<"-m">>, <<"commitMessage">>>>

(* git commit -m commitMessage *)
Commit ==
    /\ pc = "commit" /\ ~\E status \in StatusAt(pc) : Throws(status)
    /\ commands' = Append(commands, CommitArgs)
    /\ \E ok \in BOOLEAN :
        IF ok
        THEN /\ pc' = "push"
             /\ workTree' = [workTree EXCEPT !.staged = {}, !.committed = workTree.staged]
             /\ UNCHANGED result
        ELSE Caught(CommitArgs) /\ UNCHANGED workTree
    /\ UNCHANGED <<supLocals, frame, uniqueBranchName, stagedChanges, remoteBranches, seqVars, promptVars, parVars, selVars>>

PushArgs == <<<<"push">>, <<"--set-upstream">>, <<"origin">>, uniqueBranchName>>

(* git push --set-upstream origin uniqueBranchName, and the successful result *)
Push ==
    /\ pc = "push" /\ ~\E status \in StatusAt(pc) : Throws(status)
    /\ commands' = Append(commands, PushArgs)
    /\ \E ok \in BOOLEAN :
        IF ok
        THEN /\ remoteBranches' = remoteBranches \cup {uniqueBranchName}
             /\ IF Throws("complete")
                THEN CaughtError(CallbackError)
                ELSE /\ result' = PatchResult(TRUE,
                                      <<"Successfully applied changes to fix the issue.">>,
                                      stagedChanges, uniqueBranchName)
                     /\ pc' = "done"
        ELSE Caught(PushArgs) /\ UNCHANGED remoteBranches
    /\ UNCHANGED <<supLocals, frame, uniqueBranchName, workTree, stagedChanges, seqVars, promptVars, parVars, selVars>>

----------------------------------------------------------------------------
(* MultiPassProcessor: process, processSingleMode, processMultiPass *)

Selection == selectModeFromLabels(issueLabels)
singleMode == IF Selection.found THEN Selection.primaryMode ELSE defaultMode
primaryMode == Selection.primaryMode
secondaryMode ==
    IF Selection.secondaryMode # "" THEN Selection.secondaryMode ELSE defaultMultiPassSequence[2]
modes == <<primaryMode, secondaryMode>>

\* `${mode}-${baseBranchName}`
ModeBranchName(mode) == <<mode, "-">> \o baseBranchName
primaryBranchName == ModeBranchName(primaryMode)
\* `${secondaryMode}-on-${primaryMode}-${baseBranchName}`
finalBranchName == <<secondaryMode, "-on-", primaryMode, "-">> \o baseBranchName

\* the base branch handed to the secondary fixIssue
SecondaryBaseBranch == primaryBranchName

InitFailed == <<"Failed to initialize the patch client. Is aider installed?">>

\* the catch block of processMultiPass
MultiPassCaught(message) ==
    ProcessResult(FALSE, <<"Failed during multi-pass processing: ">> \o message, <<>>, modes, NoText)

\* the changes reported when the secondary pass did not return (catch block)
CaughtChanges == <<>>

(* process that dispatches on needsMultiPass alone *)
Process_IgnoringEnableMultiPass ==
    /\ seqPc = "process"
    /\ seqPc' = IF Selection.found /\ Selection.needsMultiPass
                THEN "primary_start" ELSE "single_start"
    /\ UNCHANGED <<supVars, fixVars, promptVars, parVars, selVars, authToken, issueLabels,
                   enableMultiPass, primaryResult,
                   secondaryResult, processResult, progressComments, initCalls, tempDirs>>

(* process: mode selection and dispatch *)
Process ==
    /\ seqPc = "process"
    /\ seqPc' = IF Selection.found /\ Selection.needsMultiPass /\ enableMultiPass
                THEN "primary_start" ELSE "single_start"
    /\ UNCHANGED <<supVars, fixVars, promptVars, parVars, selVars, authToken, issueLabels,
                   enableMultiPass, primaryResult,
                   secondaryResult, processResult, progressComments, initCalls, tempDirs>>

(* processSingleMode: init() outside the try, then fixIssue *)
SingleStart ==
    /\ seqPc = "single_start"
    /\ initCalls' = Append(initCalls, singleMode)
    /\ \E initOk \in BOOLEAN :
        IF initOk
        THEN /\ CallFixIssue(singleMode, ModeBranchName(singleMode), NoText,
                             createProgressCallbackHandler)
             /\ seqPc' = "single_wait"
             /\ tempDirs' = Append(tempDirs, singleMode)
             /\ UNCHANGED processResult
        ELSE /\ processResult' = Rejected(InitFailed)
             /\ seqPc' = "returned"
             /\ UNCHANGED <<supVars, fixVars, tempDirs>>
    /\ UNCHANGED <<promptVars, parVars, selVars, authToken, issueLabels,
                   enableMultiPass, primaryResult, secondaryResult,
                   progressComments>>

(* processSingleMode: the result of fixIssue, or its rejection caught *)
SingleReturn ==
    /\ seqPc = "single_wait" /\ pc \in {"done", "threw"}
    /\ processResult' =
         IF result.kind = "returned"
         THEN ProcessResult(result.success, result.message, result.changes, <<singleMode>>,
                            ModeBranchName(singleMode))
         ELSE ProcessResult(FALSE, <<"Failed during ", singleMode, " mode: ">> \o result.message,
                            <<>>, <<singleMode>>, ModeBranchName(singleMode))
    /\ seqPc' = "returned"
    /\ pc' = "idle"
    /\ UNCHANGED <<supLocals, fixVars, promptVars, parVars, selVars, authToken, issueLabels,
                   enableMultiPass, primaryResult,
                   secondaryResult, progressComments, initCalls, tempDirs>>

(* processMultiPass: init() and fixIssue of the primary pass *)
PrimaryStart ==
    /\ seqPc = "primary_start"
    /\ initCalls' = Append(initCalls, primaryMode)
    /\ \E initOk \in BOOLEAN :
        IF initOk
        THEN /\ CallFixIssue(primaryMode, primaryBranchName, NoText,
                             createProgressCallbackHandler)
             /\ seqPc' = "primary_wait"
             /\ tempDirs' = Append(tempDirs, primaryMode)
             /\ UNCHANGED processResult
        ELSE /\ processResult' = MultiPassCaught(InitFailed)
             /\ seqPc' = "returned"
             /\ UNCHANGED <<supVars, fixVars, tempDirs>>
    /\ UNCHANGED <<promptVars, parVars, selVars, authToken, issueLabels,
                   enableMultiPass, primaryResult, secondaryResult,
                   progressComments>>

(* processMultiPass: the primary result; a failure is returned at once *)
PrimaryReturn ==
    /\ seqPc = "primary_wait" /\ pc \in {"done", "threw"}
    /\ pc' = "idle"
    /\ IF result.kind # "returned"
       THEN /\ processResult' = MultiPassCaught(result.message)
            /\ seqPc' = "returned"
            /\ UNCHANGED primaryResult
       ELSE /\ primaryResult' = result
            /\ IF ~result.success
               THEN /\ processResult' =
                         ProcessResult(FALSE, <<"Failed during ", primaryMode, " mode: ">> \o result.message,
                                       result.changes, <<primaryMode>>, primaryBranchName)
                    /\ seqPc' = "returned"
               ELSE /\ seqPc' = "comment"
                    /\ UNCHANGED processResult
    /\ UNCHANGED <<supLocals, fixVars, promptVars, parVars, selVars, authToken, issueLabels,
                   enableMultiPass, secondaryResult,
                   progressComments, initCalls, tempDirs>>

(* processMultiPass: github.addIssueComment between the passes; it rethrows *)
PostComment ==
    /\ seqPc = "comment"
    /\ \E posted \in BOOLEAN :
        IF posted
        THEN /\ progressComments' = progressComments + 1
             /\ seqPc' = "secondary_start"
             /\ UNCHANGED processResult
        ELSE /\ processResult' = [MultiPassCaught(<<"HttpError">>) EXCEPT !.changes = CaughtChanges]
             /\ seqPc' = "returned"
             /\ UNCHANGED progressComments
    /\ UNCHANGED <<supVars, fixVars, promptVars, parVars, selVars, authToken, issueLabels,
                   enableMultiPass, primaryResult,
                   secondaryResult, initCalls, tempDirs>>

(* processMultiPass: init() and fixIssue of the secondary pass *)
SecondaryStart ==
    /\ seqPc = "secondary_start"
    /\ initCalls' = Append(initCalls, secondaryMode)
    /\ \E initOk \in BOOLEAN :
        IF initOk
        THEN /\ CallFixIssue(secondaryMode, finalBranchName, SecondaryBaseBranch,
                             createProgressCallbackHandler)
             /\ seqPc' = "secondary_wait"
             /\ tempDirs' = Append(tempDirs, secondaryMode)
             /\ UNCHANGED processResult
        ELSE /\ processResult' = [MultiPassCaught(InitFailed) EXCEPT !.changes = CaughtChanges]
             /\ seqPc' = "returned"
             /\ UNCHANGED <<supVars, fixVars, tempDirs>>
    /\ UNCHANGED <<promptVars, parVars, selVars, authToken, issueLabels,
                   enableMultiPass, primaryResult, secondaryResult,
                   progressComments>>

(* processMultiPass: the aggregate of both passes *)
SecondaryReturn ==
    /\ seqPc = "secondary_wait" /\ pc \in {"done", "threw"}
    /\ pc' = "idle"
    /\ seqPc' = "returned"
    /\ IF result.kind # "returned"
       THEN /\ processResult' = [MultiPassCaught(result.message) EXCEPT !.changes = CaughtChanges]
            /\ UNCHANGED secondaryResult
       ELSE /\ secondaryResult' = result
            /\ LET allChanges == Dedupe(primaryResult.changes \o result.changes)
               IN processResult' =
                    IF ~result.success
                    THEN ProcessResult(FALSE,
                            <<"First pass (", primaryMode, ") successful, but second pass (",
                              secondaryMode, ") failed: ">> \o result.message,
                            allChanges, modes, finalBranchName)
                    ELSE ProcessResult(TRUE,
                            <<"Successfully applied changes with ", primaryMode, " followed by ",
                              secondaryMode, " modes">>,
                            allChanges, modes, finalBranchName)
    /\ UNCHANGED <<supLocals, fixVars, promptVars, parVars, selVars, authToken, issueLabels,
                   enableMultiPass, primaryResult,
                   progressComments, initCalls, tempDirs>>

----------------------------------------------------------------------------
(* The prompt-answering supervisor: classification of a stdout chunk       *)
(*                                                                         *)
(* A chunk is a sequence of pieces of agent output separated by blanks.    *)
(* Pieces lists, for every piece, the literals of the handlers that occur  *)
(* in it (includes), the words its lower-cased text contains (lower), the  *)
(* end-anchored patterns it satisfies when it is the last piece (ends) and *)
(* whether a word starting with "edit" / "files" occurs in it.             *)

Piece(includes, lower, ends) == [includes |-> includes, lower |-> lower, ends |-> ends]

Pieces ==
    ("Edit the files?"          :> Piece({"Edit the files?"}, {"edit", "file", "\\bedit", "\\bfiles"}, {"?"})) @@
    ("Apply suggested changes?" :> Piece({"Apply suggested changes?"}, {"apply", "change"}, {"?"})) @@
    ("Open this URL?"           :> Piece({"Open this URL?"}, {}, {"?"})) @@
    ("Install dependencies?"    :> Piece({}, {}, {"?"})) @@
    ("Save the file?"           :> Piece({}, {"save", "file"}, {"?"})) @@
    ("Run the tests now?"       :> Piece({}, {}, {"?"})) @@
    ("Overwrite and save?"      :> Piece({}, {"save"}, {"?"})) @@
    ("Delete the branch?"       :> Piece({}, {}, {"?"})) @@
    ("Sending request..."       :> Piece({}, {}, {})) @@
    ("(Y)es/(N)o"               :> Piece({"(Y)", "(Y)es/(N)o"}, {}, {})) @@
    ("[Yes]:"                   :> Piece({"[Yes]", "[", "]"}, {}, {"default_yes", "prompt_with_brackets"})) @@
    ("[y/n]"                    :> Piece({"[", "]"}, {}, {})) @@
    ("(Y/n)"                    :> Piece({}, {}, {"yes_default"})) @@
    ("(y/N)"                    :> Piece({}, {}, {"no_default"})) @@
    ("(yes/no)"                 :> Piece({}, {}, {"generic_choice"})) @@
    ("n"                        :> Piece({}, {}, {"n$"}))

\* chunk.includes(literal)
Includes(chunk, literal) == \E i \in DOMAIN chunk : literal \in Pieces[chunk[i]].includes

\* chunk.toLowerCase().includes(word)
LowerIncludes(chunk, word) == \E i \in DOMAIN chunk : word \in Pieces[chunk[i]].lower

\* an end-anchored pattern, /...(\s*)$/ or trim().endsWith
EndsWith(chunk, pattern) == chunk # <<>> /\ pattern \in Pieces[chunk[Len(chunk)]].ends

\* the condition of the critical "Edit the files?" section
CriticalEditPrompt(chunk) ==
    /\ \/ Includes(chunk, "Edit the files?")
       \/ Includes(chunk, "edit the files")
       \/ \E i, j \in DOMAIN chunk :
            i <= j /\ "\\bedit" \in Pieces[chunk[i]].lower /\ "\\bfiles" \in Pieces[chunk[j]].lower
       \/ Includes(chunk, "Edit files?")
    /\ Includes(chunk, "(Y)") \/ Includes(chunk, "[Yes]") \/ Includes(chunk, "Y/N")

\* an "n" already typed behind the edit prompt: /Edit the files\?\s*.*?\s*n$/i and its variants
AnsweredNegatively(chunk) ==
    /\ \/ Includes(chunk, "Edit the files?")
       \/ Includes(chunk, "Edit files?")
       \/ Includes(chunk, "(Y)es/(N)o")
    /\ EndsWith(chunk, "n$")

Matcher(kind, pattern, response, promptType) ==
    [kind |-> kind, pattern |-> pattern, response |-> response, promptType |-> promptType]

\* the handlePrompt calls of the stdout handler, in their order
NamedMatchers ==
    << Matcher("includes", "Edit the files?", "y", "edit_files"),
       Matcher("includes", "edit the files", "y", "edit_files_alt"),
       Matcher("includes", "Apply suggested changes?", "y", "apply_changes"),
       Matcher("includes", "apply changes", "y", "apply_changes_alt"),
       Matcher("includes", "Save changes?", "y", "save_changes"),
       Matcher("includes", "save changes", "y", "save_changes_alt"),
       Matcher("includes", "Clone repo:", "n", "clone_repo"),
       Matcher("includes", "Open this URL?", "n", "open_url"),
       Matcher("includes", "open link", "n", "open_link"),
       Matcher("includes", "Open browser?", "n", "open_browser"),
       Matcher("includes", "Add file to the chat?", "n", "add_file"),
       Matcher("includes", "Do you want to upgrade?", "n", "upgrade"),
       Matcher("includes", "Run pip install?", "n", "pip_install"),
       Matcher("includes", "Newer aider version", "n", "version_notice"),
       Matcher("includes", "Do you want to allow", "n", "permission"),
       Matcher("includes", "Would you like me to", "n", "permission_alt"),
       Matcher("includes", "Stage these changes?", "y", "stage_changes"),
       Matcher("includes", "Commit staged changes?", "y", "commit_changes"),
       Matcher("includes", "stage changes", "y", "stage_changes_alt"),
       Matcher("includes", "continue?", "y", "continue"),
       Matcher("includes", "proceed?", "y", "proceed") >>

\* the generic questions and the trailing catch-all patterns
LowPriorityMatchers ==
    << Matcher("function", "editQuestion", "y", "generic_edit_question"),
       Matcher("function", "yesNoQuestion", "dynamic", "generic_question"),
       Matcher("ends", "default_yes", "y", "default_yes"),
       Matcher("ends", "prompt_with_brackets", "n", "prompt_with_brackets"),
       Matcher("ends", "yn_choice", "n", "yn_choice"),
       Matcher("ends", "yes_default", "y", "yes_default"),
       Matcher("ends", "no_default", "n", "no_default"),
       Matcher("ends", "generic_choice", "n", "generic_choice"),
       Matcher("ends", "default_no", "n", "default_no") >>

Matchers == NamedMatchers \o LowPriorityMatchers

\* lowerStr.includes('edit') || 'save' || 'change' || 'apply'
MentionsEditing(chunk) == \E w \in {"edit", "save", "change", "apply"} : LowerIncludes(chunk, w)

\* the pattern test of handlePrompt
Matches(m, chunk) ==
    CASE m.kind = "includes" -> Includes(chunk, m.pattern)
      [] m.kind = "ends" -> EndsWith(chunk, m.pattern)
      [] m.pattern = "editQuestion" ->
            /\ EndsWith(chunk, "?")
            /\ LowerIncludes(chunk, "edit")
            /\ LowerIncludes(chunk, "file") \/ LowerIncludes(chunk, "change")
      [] m.pattern = "yesNoQuestion" ->
            Includes(chunk, "(Y/N)") \/ (Includes(chunk, "[") /\ Includes(chunk, "]"))

\* responseText of handlePrompt
ResponseText(m, chunk) ==
    IF m.response = "dynamic"
    THEN (IF MentionsEditing(chunk) THEN "y" ELSE "n")
    ELSE m.response

Matching(chunk) == {i \in DOMAIN Matchers : Matches(Matchers[i], chunk)}

NoAnswer == [via |-> "none", response |-> "", promptType |-> ""]

\* what the stdout handler does with one chunk: the critical section first,
\* then the first handlePrompt call whose pattern matches (promptHandled)
handlePrompt(chunk) ==
    IF CriticalEditPrompt(chunk)
    THEN IF AnsweredNegatively(chunk)
         THEN [via |-> "override", response |-> "y", promptType |-> "CRITICAL_EDIT_FILES_OVERRIDE"]
         ELSE [via |-> "critical", response |-> "y", promptType |-> "CRITICAL_EDIT_FILES"]
    ELSE IF Matching(chunk) = {} THEN NoAnswer
    ELSE LET m == Matchers[Min(Matching(chunk))]
         IN [via |-> "handlePrompt", response |-> ResponseText(m, chunk), promptType |-> m.promptType]

\* stdout chunks that are explored
ChunkChoices ==
    { <<"Edit the files?", "(Y)es/(N)o", "[Yes]:">>,
      <<"Edit the files?", "(Y)es/(N)o", "[Yes]:", "n">>,
      <<"Apply suggested changes?", "(Y/n)">>,
      <<"Open this URL?", "(Y)es/(N)o", "[Yes]:">>,
      <<"Install dependencies?", "(Y/n)">>,
      <<"Save the file?", "(y/N)">>,
      <<"Run the tests now?", "[y/n]">>,
      <<"Overwrite and save?", "[y/n]">>,
      <<"Delete the branch?", "(yes/no)">>,
      <<"Sending request...">> }

----------------------------------------------------------------------------
(* The prompt-answering supervisor: writes to the input stream of the agent *)

SendDelayMs == 100

\* the agent prints at most MaxChunks chunks, all within OutputWindowMs of its
\* start, and is silent afterwards
MaxChunks == 2
OutputWindowMs == 100

Backspaces == <<"\\b x 10">>

\* input.endsWith('\n') ? input : `${input}\n`
FormattedInput(input) == IF input = "\n" THEN <<"\n">> ELSE <<input, "\n">>

\* a write reaches the agent only while its input stream is open
Delivered == stdinWritable /\ aiderProcess = "running"

\* aiderProcess.stdin.write(text, ...) issued by call `send` of sendInputToAider
\* (0: written directly by the stdout handler) for chunk number `for` (0: probe)
StdinWrite(send, for, text) ==
    [send |-> send, for |-> for, text |-> text, delivered |-> Delivered]

\* the return value of write: false on back-pressure or on a closed stream
WriteOutcomes == IF Delivered THEN BOOLEAN ELSE {FALSE}

\* sendInputToAider(input): the promise and its 100 ms setTimeout
sendInputToAider(for, input, caller) ==
    [for |-> for, input |-> input, caller |-> caller, stage |-> "delay",
     due |-> now + SendDelayMs, wrote |-> 0, rejected |-> FALSE]

\* the sends that wait for the callback of a write
AwaitingFlush == {k \in DOMAIN sends : sends[k].stage \in {"cleared", "written"}}

(* stdout 'data' with the prompt handlers *)
StdoutPrompt(choices) ==
    /\ pc = "waiting" /\ aiderProcess = "running"
    /\ Len(chunks) < MaxChunks /\ now <= OutputWindowMs
    /\ \E chunk \in choices :
        LET answer == handlePrompt(chunk)
            c == Len(chunks) + 1
        IN /\ chunks' = Append(chunks, chunk)
           /\ CASE answer.via = "override" ->
                    /\ stdinWrites' = stdinWrites \o <<StdinWrite(0, c, Backspaces),
                                                       StdinWrite(0, c, <<"y", "\n">>)>>
                    /\ UNCHANGED sends
                [] answer.via \in {"critical", "handlePrompt"} ->
                    /\ sends' = Append(sends, sendInputToAider(c, answer.response, answer.via))
                    /\ UNCHANGED stdinWrites
                [] OTHER -> UNCHANGED <<sends, stdinWrites>>
    /\ lastActivity' = now
    /\ consecutiveHealthChecks' = 0
    /\ UNCHANGED <<pc, now, timers, graceTimers, cleared, firedAfterClose, aiderProcess,
                   restartProcess, exitDueToUpgrade, noticeSeen, restartOutput, pendingProbes,
                   signals, spawns, exitCode, timeoutSecs, fixVars, seqVars, stdinWritable, parVars, selVars>>

(* the agent closes its input stream, or the pipe to it breaks *)
StdinClosed ==
    /\ pc = "waiting" /\ aiderProcess = "running"
    /\ stdinWritable /\ now <= OutputWindowMs
    /\ stdinWritable' = FALSE
    /\ UNCHANGED <<supVars, fixVars, seqVars, chunks, sends, stdinWrites, parVars, selVars>>

(* the setTimeout callback of sendInputToAider: the first write *)
SendTimer ==
    /\ \E k \in DOMAIN sends :
        /\ sends[k].stage = "delay" /\ sends[k].due <= now
        /\ \A j \in DOMAIN sends : j < k => sends[j].stage # "delay"
        /\ IF sends[k].input \in {"y", "n"}
           THEN /\ stdinWrites' = Append(stdinWrites, StdinWrite(k, sends[k].for, Backspaces))
                /\ sends' = [sends EXCEPT ![k].stage = "cleared", ![k].wrote = Len(stdinWrites) + 1]
           ELSE \E success \in WriteOutcomes :
                /\ stdinWrites' = Append(stdinWrites,
                                         StdinWrite(k, sends[k].for, FormattedInput(sends[k].input)))
                /\ sends' = [sends EXCEPT ![k].stage = "written", ![k].wrote = Len(stdinWrites) + 1,
                                          ![k].rejected = ~success]
    /\ UNCHANGED <<supVars, fixVars, seqVars, stdinWritable, chunks, parVars, selVars>>

(* the callback of the backspace write: the answer line; a write that returns *)
(* false rejects the promise, and the critical section then writes 'y\n' itself *)
ClearedCallback ==
    /\ \E k \in AwaitingFlush :
        /\ sends[k].stage = "cleared"
        /\ \A j \in AwaitingFlush : sends[k].wrote <= sends[j].wrote
        /\ \E success \in WriteOutcomes :
            /\ stdinWrites' =
                 Append(stdinWrites, StdinWrite(k, sends[k].for, FormattedInput(sends[k].input)))
                 \o (IF ~success /\ sends[k].caller = "critical"
                     THEN <<StdinWrite(0, sends[k].for, <<"y", "\n">>)>>
                     ELSE <<>>)
            /\ sends' = [sends EXCEPT ![k].stage = "written", ![k].wrote = Len(stdinWrites) + 1,
                                      ![k].rejected = ~success]
    /\ UNCHANGED <<supVars, fixVars, seqVars, stdinWritable, chunks, parVars, selVars>>

(* the callback of the line write: the empty write, then resolve; the .then *)
(* of the health check counts the probe                                     *)
WriteFlushed ==
    /\ \E k \in AwaitingFlush :
        /\ sends[k].stage = "written"
        /\ \A j \in AwaitingFlush : sends[k].wrote <= sends[j].wrote
        /\ sends' = [sends EXCEPT ![k].stage = "settled", ![k].rejected = FALSE]
        /\ consecutiveHealthChecks' =
             IF sends[k].caller = "healthCheck" /\ ~sends[k].rejected
             THEN consecutiveHealthChecks + 1
             ELSE consecutiveHealthChecks
    /\ UNCHANGED <<pc, now, timers, graceTimers, cleared, firedAfterClose, aiderProcess,
                   restartProcess, lastActivity, exitDueToUpgrade, noticeSeen, restartOutput,
                   pendingProbes, signals, spawns, exitCode, timeoutSecs, fixVars, seqVars,
                   stdinWritable, chunks, stdinWrites, parVars, selVars>>

(* the event loop is idle until the setTimeout of a send is due *)
SendDelayElapsed ==
    /\ \E k \in DOMAIN sends : sends[k].stage = "delay" /\ sends[k].due > now
    /\ AwaitingFlush = {}
    /\ now' = Min({sends[k].due : k \in {j \in DOMAIN sends : sends[j].stage = "delay"}})
    /\ UNCHANGED <<pc, timers, graceTimers, cleared, firedAfterClose, aiderProcess,
                   restartProcess, lastActivity, consecutiveHealthChecks, exitDueToUpgrade,
                   noticeSeen, restartOutput, pendingProbes, signals, spawns, exitCode,
                   timeoutSecs, fixVars, seqVars, promptVars, parVars, selVars>>

(* healthCheckInterval callback of the prompt-answering supervisor *)
HealthCheckProbe ==
    /\ Due("healthCheckInterval")
    /\ timers' = [timers EXCEPT !["healthCheckInterval"] = now + HealthCheckIntervalMs]
    /\ NoteFired
    /\ \E late \in BOOLEAN :
        IF stdinWritable /\ Inactive(HealthCheckThresholdSecs, late)
        THEN /\ sends' = Append(sends, sendInputToAider(0, "\n", "healthCheck"))
             /\ IF consecutiveHealthChecks >= MaxHealthChecks
                THEN /\ Kill("healthCheck", "SIGTERM")
                     /\ graceTimers' = graceTimers \cup {now + GracePeriodMs}
                ELSE UNCHANGED <<signals, aiderProcess, graceTimers>>
        ELSE UNCHANGED <<sends, signals, aiderProcess, graceTimers>>
    /\ UNCHANGED <<pc, now, cleared, restartProcess, lastActivity, consecutiveHealthChecks,
                   exitDueToUpgrade, noticeSeen, restartOutput, pendingProbes, spawns, exitCode,
                   timeoutSecs, fixVars, seqVars, stdinWritable, chunks, stdinWrites, parVars, selVars>>

----------------------------------------------------------------------------
(* The sequencer with its fixIssue invocations; the agent exits before any *)
(* timer is due                                                            *)

InitSeq ==
    /\ config \in SequencerConfigChoices
    /\ issueDetails = NoIssue
    /\ comment = <<>>
    /\ modeResult = NoModeResult
    /\ replies = <<>>
    /\ fixRuns = 0
    /\ pc = "idle"
    /\ now = 0
    /\ timers = [h \in TimerHandles |-> Idle]
    /\ graceTimers = {}
    /\ cleared = [h \in TimerHandles |-> 0]
    /\ firedAfterClose = FALSE
    /\ aiderProcess = "none"
    /\ restartProcess = "none"
    /\ lastActivity = 0
    /\ consecutiveHealthChecks = 0
    /\ exitDueToUpgrade = FALSE
    /\ noticeSeen = FALSE
    /\ restartOutput = FALSE
    /\ pendingProbes = 0
    /\ signals = <<>>
    /\ spawns = <<>>
    /\ exitCode = NoCode
    /\ timeoutSecs = DefaultTimeoutSecs
    /\ frame = NoFrame
    /\ uniqueBranchName = NoText
    /\ workTree = EmptyTree
    /\ stagedChanges = <<>>
    /\ result = NoPatchResult
    /\ commands = <<>>
    /\ remoteBranches \in RemoteChoices
    /\ authToken \in AuthTokens
    /\ issueLabels \in LabelChoices
    /\ enableMultiPass \in BOOLEAN
    /\ seqPc = "process"
    /\ primaryResult = NoPatchResult
    /\ secondaryResult = NoPatchResult
    /\ processResult = NoProcessResult
    /\ progressComments = 0
    /\ initCalls = <<>>
    /\ tempDirs = <<>>
    /\ stdinWritable = TRUE
    /\ chunks = <<>>
    /\ sends = <<>>
    /\ stdinWrites = <<>>
    /\ processCwd = <<"appDir">>
    /\ invocations = <<>>
    /\ executed = <<>>

NextSeq ==
    \/ Process
    \/ SingleStart
    \/ SingleReturn
    \/ PrimaryStart
    \/ PrimaryReturn
    \/ PostComment
    \/ SecondaryStart
    \/ SecondaryReturn
    \/ FixEntry
    \/ Clone
    \/ Fetch
    \/ Checkout
    \/ Branch
    \/ Spawn
    \/ StdoutData
    \/ Close
    \/ RestartData
    \/ RestartClose
    \/ Harvest
    \/ Stage
    \/ Commit
    \/ Push

Spec == InitSeq /\ [][NextSeq]_vars

----------------------------------------------------------------------------
(* The supervisor of one fixIssue invocation, from the spawn of the agent *)

InitSup ==
    /\ SelectorIdle
    /\ pc = "spawn"
    /\ now = 0
    /\ timers = [h \in TimerHandles |-> Idle]
    /\ graceTimers = {}
    /\ cleared = [h \in TimerHandles |-> 0]
    /\ firedAfterClose = FALSE
    /\ aiderProcess = "none"
    /\ restartProcess = "none"
    /\ lastActivity = 0
    /\ consecutiveHealthChecks = 0
    /\ exitDueToUpgrade = FALSE
    /\ noticeSeen = FALSE
    /\ restartOutput = FALSE
    /\ pendingProbes = 0
    /\ signals = <<>>
    /\ spawns = <<>>
    /\ exitCode = NoCode
    /\ timeoutSecs \in TimeoutChoices
    /\ frame = [mode |-> defaultMode, branchName |-> <<defaultMode, "-">> \o baseBranchName,
                baseBranch |-> NoText, progressCallback |-> createProgressCallbackHandler]
    /\ uniqueBranchName = UniqueBranchName(defaultMode, "k3x9qa", frame.branchName)
    /\ workTree = [EmptyTree EXCEPT !.untracked = {IssueFile}]
    /\ stagedChanges = <<>>
    /\ result = NoPatchResult
    /\ authToken = NoToken
    /\ commands = <<CloneArgs, BranchArgs>>
    /\ remoteBranches = {<<"main">>}
    /\ issueLabels = <<>>
    /\ enableMultiPass = TRUE
    /\ seqPc = "single_wait"
    /\ primaryResult = NoPatchResult
    /\ secondaryResult = NoPatchResult
    /\ processResult = NoProcessResult
    /\ progressComments = 0
    /\ initCalls = <<defaultMode>>
    /\ tempDirs = <<defaultMode>>
    /\ stdinWritable = TRUE
    /\ chunks = <<>>
    /\ sends = <<>>
    /\ stdinWrites = <<>>
    /\ processCwd = <<"appDir">>
    /\ invocations = <<>>
    /\ executed = <<>>

NextSup ==
    \/ Spawn
    \/ StdoutData
    \/ StderrData
    \/ ActivityTick
    \/ HealthCheckTick
    \/ ProbeSent
    \/ GraceKill
    \/ HardTimeout
    \/ AbsoluteMax
    \/ Close
    \/ RestartData
    \/ RestartClose
    \/ AdvanceTime

SpecSup == InitSup /\ [][NextSup]_vars

----------------------------------------------------------------------------
(* The prompt-answering supervisor of one fixIssue invocation, from the    *)
(* spawn of the agent                                                      *)

\* the prompt the agent asks before it goes silent
StuckChoices == {<<"Edit the files?", "(Y)es/(N)o", "[Yes]:">>}

NextPrompt ==
    \/ Spawn
    \/ StdoutPrompt(StuckChoices)
    \/ StdinClosed
    \/ SendTimer
    \/ ClearedCallback
    \/ WriteFlushed
    \/ ActivityTick
    \/ HealthCheckProbe
    \/ GraceKill
    \/ HardTimeout
    \/ AbsoluteMax
    \/ Close
    \/ AdvanceTime

SpecPrompt == InitSup /\ [][NextPrompt]_vars

----------------------------------------------------------------------------
(* The answers of the prompt-answering supervisor to the chunks the agent  *)
(* prints before any liveness timer is due                                 *)

NextAnswer ==
    \/ Spawn
    \/ StdoutPrompt(ChunkChoices)
    \/ StdinClosed
    \/ SendDelayElapsed
    \/ SendTimer
    \/ ClearedCallback
    \/ WriteFlushed
    \/ Close

SpecAnswer == InitSup /\ [][NextAnswer]_vars

----------------------------------------------------------------------------
(* fixIssue called with a progressCallback of the caller's own *)

\* the callbacks that are explored: one that never throws, and for each status
\* of the version-control steps one that throws when it is called with it
CallbackChoices ==
    {NeverThrows, "starting", "branch_generated", "cloning", "checkout", "branch",
     "aider_start", "aider_complete", "no_changes", "staging", "committing", "pushing",
     "complete", "error"}

(* patcher.fixIssue(repoUrl, title, body, branchName, authToken, baseBranch, progressCallback) *)
DirectCall ==
    /\ pc = "idle" /\ result.kind = "none"
    /\ \E progressCallback \in CallbackChoices, baseBranch \in {NoText, <<"main">>} :
        CallFixIssue(defaultMode, ModeBranchName(defaultMode), baseBranch, progressCallback)
    /\ UNCHANGED <<seqVars, promptVars, parVars, selVars>>

InitFix ==
    /\ SelectorIdle
    /\ pc = "idle"
    /\ now = 0
    /\ timers = [h \in TimerHandles |-> Idle]
    /\ graceTimers = {}
    /\ cleared = [h \in TimerHandles |-> 0]
    /\ firedAfterClose = FALSE
    /\ aiderProcess = "none"
    /\ restartProcess = "none"
    /\ lastActivity = 0
    /\ consecutiveHealthChecks = 0
    /\ exitDueToUpgrade = FALSE
    /\ noticeSeen = FALSE
    /\ restartOutput = FALSE
    /\ pendingProbes = 0
    /\ signals = <<>>
    /\ spawns = <<>>
    /\ exitCode = NoCode
    /\ timeoutSecs = DefaultTimeoutSecs
    /\ frame = NoFrame
    /\ uniqueBranchName = NoText
    /\ workTree = EmptyTree
    /\ stagedChanges = <<>>
    /\ result = NoPatchResult
    /\ commands = <<>>
    /\ remoteBranches = {<<"main">>}
    /\ authToken \in AuthTokens
    /\ issueLabels = <<>>
    /\ enableMultiPass = FALSE
    /\ seqPc = "single_wait"
    /\ primaryResult = NoPatchResult
    /\ secondaryResult = NoPatchResult
    /\ processResult = NoProcessResult
    /\ progressComments = 0
    /\ initCalls = <<defaultMode>>
    /\ tempDirs = <<defaultMode>>
    /\ stdinWritable = TRUE
    /\ chunks = <<>>
    /\ sends = <<>>
    /\ stdinWrites = <<>>
    /\ processCwd = <<"appDir">>
    /\ invocations = <<>>
    /\ executed = <<>>

NextFix ==
    \/ DirectCall
    \/ FixEntry
    \/ CallbackThrew
    \/ Clone
    \/ Fetch
    \/ Checkout
    \/ Branch
    \/ Spawn
    \/ StdoutData
    \/ Close
    \/ RestartData
    \/ RestartClose
    \/ Harvest
    \/ Stage
    \/ Commit
    \/ Push

SpecFix == InitFix /\ [][NextFix]_vars

----------------------------------------------------------------------------
(* Two fixIssue invocations in one Node process. Every `await` is a point  *)
(* where the other invocation may run; executeCommand spawns git without a *)
(* cwd option, so git runs in process.cwd(), which process.chdir changes   *)
(* for the whole process. All commands succeed here.                       *)

Invocations == {"A", "B"}

\* path.join(this.tempDir, `issue-${Date.now()}`) of each invocation
IssueDirOf(i) == <<"tempDir-", i, "/issue-", i>>

\* spawn(command, args, {stdio: 'inherit'}): the child inherits process.cwd()
executeCommand(i, args, cwd) == executed' = Append(executed, [by |-> i, args |-> args, cwd |-> cwd])

At(i, position) == invocations[i].position = position
Goto(i, position) == invocations' = [invocations EXCEPT ![i].position = position]

(* git clone --depth 1 gitUrl issueDir *)
ParClone ==
    /\ \E i \in Invocations :
        /\ At(i, "clone")
        /\ Goto(i, "cloned")
        /\ executeCommand(i, <<"clone", IssueDirOf(i)>>, processCwd)
    /\ UNCHANGED <<supVars, fixVars, seqVars, promptVars, selVars, processCwd>>

(* process.chdir(issueDir) and, in the same turn, the next git command *)
ParChdir ==
    /\ \E i \in Invocations :
        /\ At(i, "cloned")
        /\ processCwd' = IssueDirOf(i)
        /\ IF invocations[i].baseBranch # NoText
           THEN /\ executeCommand(i, <<"fetch">>, processCwd')
                /\ Goto(i, "fetched")
           ELSE /\ executeCommand(i, <<"checkout", "-b">>, processCwd')
                /\ Goto(i, "branched")
    /\ UNCHANGED <<supVars, fixVars, seqVars, promptVars, selVars>>

(* git checkout baseBranch *)
ParCheckout ==
    /\ \E i \in Invocations :
        /\ At(i, "fetched")
        /\ Goto(i, "checkedout")
        /\ executeCommand(i, <<"checkout">>, processCwd)
    /\ UNCHANGED <<supVars, fixVars, seqVars, promptVars, selVars, processCwd>>

(* git checkout -b uniqueBranchName after the base branch *)
ParBranch ==
    /\ \E i \in Invocations :
        /\ At(i, "checkedout")
        /\ Goto(i, "branched")
        /\ executeCommand(i, <<"checkout", "-b">>, processCwd)
    /\ UNCHANGED <<supVars, fixVars, seqVars, promptVars, selVars, processCwd>>

(* spawn('aider', args, {cwd: issueDir, ...}) *)
ParSpawn ==
    /\ \E i \in Invocations :
        /\ At(i, "branched")
        /\ invocations' = [invocations EXCEPT ![i].position = "waiting", ![i].aider = "running"]
    /\ UNCHANGED <<supVars, fixVars, seqVars, promptVars, selVars, processCwd, executed>>

(* aiderProcess 'close', after an exit or after a signal *)
ParClose ==
    /\ \E i \in Invocations :
        /\ At(i, "waiting")
        /\ invocations' = [invocations EXCEPT ![i].position = "closed", ![i].aider = "exited"]
    /\ UNCHANGED <<supVars, fixVars, seqVars, promptVars, selVars, processCwd, executed>>

(* the agent has left changes: git add . *)
ParStage ==
    /\ \E i \in Invocations :
        /\ At(i, "closed")
        /\ Goto(i, "added")
        /\ executeCommand(i, <<"add">>, processCwd)
    /\ UNCHANGED <<supVars, fixVars, seqVars, promptVars, selVars, processCwd>>

(* git commit -m commitMessage *)
ParCommit ==
    /\ \E i \in Invocations :
        /\ At(i, "added")
        /\ Goto(i, "committed")
        /\ executeCommand(i, <<"commit">>, processCwd)
    /\ UNCHANGED <<supVars, fixVars, seqVars, promptVars, selVars, processCwd>>

(* git push --set-upstream origin uniqueBranchName *)
ParPush ==
    /\ \E i \in Invocations :
        /\ At(i, "committed")
        /\ Goto(i, "done")
        /\ executeCommand(i, <<"push">>, processCwd)
    /\ UNCHANGED <<supVars, fixVars, seqVars, promptVars, selVars, processCwd>>

(* PatchClient.cleanup() of a client whose fixIssue has returned: pkill -f aider *)
(* signals every process whose command line contains "aider", then the       *)
(* client's own tempDir is removed                                            *)
ParCleanup ==
    /\ \E i \in Invocations :
        /\ At(i, "done")
        /\ invocations[i].tempDir
        /\ invocations' =
             [j \in Invocations |->
                 IF j = i
                 THEN [invocations[j] EXCEPT !.position = "cleaned", !.tempDir = FALSE]
                 ELSE IF invocations[j].aider = "running"
                 THEN [invocations[j] EXCEPT !.terminatedBy = i]
                 ELSE invocations[j]]
    /\ UNCHANGED <<supVars, fixVars, seqVars, promptVars, selVars, processCwd, executed>>

InitPar ==
    /\ SelectorIdle
    /\ pc = "idle"
    /\ now = 0
    /\ timers = [h \in TimerHandles |-> Idle]
    /\ graceTimers = {}
    /\ cleared = [h \in TimerHandles |-> 0]
    /\ firedAfterClose = FALSE
    /\ aiderProcess = "none"
    /\ restartProcess = "none"
    /\ lastActivity = 0
    /\ consecutiveHealthChecks = 0
    /\ exitDueToUpgrade = FALSE
    /\ noticeSeen = FALSE
    /\ restartOutput = FALSE
    /\ pendingProbes = 0
    /\ signals = <<>>
    /\ spawns = <<>>
    /\ exitCode = NoCode
    /\ timeoutSecs = DefaultTimeoutSecs
    /\ frame = NoFrame
    /\ uniqueBranchName = NoText
    /\ workTree = EmptyTree
    /\ stagedChanges = <<>>
    /\ result = NoPatchResult
    /\ commands = <<>>
    /\ remoteBranches = {<<"main">>}
    /\ authToken = NoToken
    /\ issueLabels = <<>>
    /\ enableMultiPass = FALSE
    /\ seqPc = "single_wait"
    /\ primaryResult = NoPatchResult
    /\ secondaryResult = NoPatchResult
    /\ processResult = NoProcessResult
    /\ progressComments = 0
    /\ initCalls = <<defaultMode>>
    /\ tempDirs = <<defaultMode>>
    /\ stdinWritable = TRUE
    /\ chunks = <<>>
    /\ sends = <<>>
    /\ stdinWrites = <<>>
    /\ processCwd = <<"appDir">>
    /\ invocations \in [Invocations -> {[position |-> "clone", baseBranch |-> b, aider |-> "none",
                                            terminatedBy |-> "none", tempDir |-> TRUE] :
                                           b \in {NoText, <<"main">>}}]
    /\ executed = <<>>

NextPar ==
    \/ ParClone
    \/ ParChdir
    \/ ParCheckout
    \/ ParBranch
    \/ ParSpawn
    \/ ParClose
    \/ ParStage
    \/ ParCommit
    \/ ParPush
    \/ ParCleanup

SpecPar == InitPar /\ [][NextPar]_vars

----------------------------------------------------------------------------
(* ModeSelector.selectModeFromCommand and analyzeIssueForMode, and the      *)
(* webhook handlers that call them. A text is a sequence of segments; the  *)
(* segment " " is white space, every other segment has none.               *)

Whitespace == " "

RECURSIVE Split(_)
\* text.trim().split(/\s+/): the maximal runs of segments without white space
Split(text) ==
    IF text = <<>> THEN <<>>
    ELSE IF Head(text) = Whitespace THEN Split(Tail(text))
    ELSE LET rest == Split(Tail(text))
         IN IF Len(text) > 1 /\ text[2] # Whitespace
            THEN <<<<Head(text)>> \o Head(rest)>> \o Tail(rest)
            ELSE <<<<Head(text)>>>> \o rest

\* segment.toLowerCase()
ToLowerCase(segment) ==
    CASE segment = "Architect" -> "architect"
      [] segment = "MultiPass" -> "multipass"
      [] segment = "Hybrid:"   -> "hybrid:"
      [] OTHER                 -> segment

LowerCased(token) == [i \in DOMAIN token |-> ToLowerCase(token[i])]

RECURSIVE SplitPlus(_)
\* modeArg.split('+')
SplitPlus(token) ==
    IF "+" \notin Range(token) THEN <<token>>
    ELSE LET at == Min({i \in DOMAIN token : token[i] = "+"})
         IN <<SubSeq(token, 1, at - 1)>> \o SplitPlus(SubSeq(token, at + 1, Len(token)))

\* text.startsWith(prefix), for a prefix that is one segment
StartsWith(text, prefix) == text # <<>> /\ Head(text) = prefix

\* a configured mode name as the segments of a token
ModeToken(mode) ==
    CASE mode = "hybrid:security"    -> <<"hybrid:", "security">>
      [] mode = "hybrid:performance" -> <<"hybrid:", "performance">>
      [] mode = "hybrid:typescript"  -> <<"hybrid:", "typescript">>
      [] OTHER                       -> <<mode>>

\* null, and a ModeResult whose mode names are tokens
NoCommandSelection == [found |-> FALSE, primaryMode |-> <<>>, secondaryMode |-> <<>>,
                       needsMultiPass |-> FALSE]
CommandSelection(primary, secondary, needsMultiPass) ==
    [found |-> TRUE, primaryMode |-> primary, secondaryMode |-> secondary,
     needsMultiPass |-> needsMultiPass]

\* ModeSelector.selectModeFromCommand
selectModeFromCommand(command) ==
    LET parts == Split(command)
    IN IF Len(parts) < 2 THEN NoCommandSelection
       ELSE LET modeArg == LowerCased(parts[2])
            IN IF modeArg = <<"multipass">>
               THEN CommandSelection(ModeToken(defaultMultiPassSequence[1]),
                                     ModeToken(defaultMultiPassSequence[2]), TRUE)
               ELSE IF "+" \in Range(modeArg)
               THEN CommandSelection(SplitPlus(modeArg)[1], SplitPlus(modeArg)[2], TRUE)
               ELSE IF modeArg \in {<<"architect">>, <<"patcher">>}
               THEN CommandSelection(modeArg, <<>>, FALSE)
               ELSE IF StartsWith(modeArg, "hybrid:")
               THEN CommandSelection(modeArg, <<>>, FALSE)
               ELSE NoCommandSelection

architectureKeywords ==
    {"refactor", "redesign", "architecture", "restructure", "design pattern", "rewrite",
     "overhaul", "major update", "significant change", "fundamental", "framework",
     "infrastructure"}

patcherKeywords ==
    {"fix bug", "bugfix", "patch", "issue", "error", "crash", "typo", "incorrect behavior",
     "minor issue", "quick fix", "small change", "small update"}

\* the keywords k for which piece.toLowerCase().includes(k)
Mentions(piece) ==
    CASE piece = "Refactor the framework"    -> {"refactor", "framework"}
      [] piece = "Redesign"                  -> {"redesign"}
      [] piece = "Overhaul the architecture" -> {"overhaul", "architecture"}
      [] piece = "Fix bug"                   -> {"fix bug"}
      [] piece = "minor issue"               -> {"minor issue", "issue"}
      [] piece = "Crash with an error"       -> {"crash", "error"}
      [] piece = "typo"                      -> {"typo"}
      [] OTHER                               -> {}

\* the segment that is a code fence (three backticks)
CodeFence == "<fence>"

\* the number of keywords that occur in the text
KeywordCount(text, keywords) ==
    Cardinality({k \in keywords : \E i \in DOMAIN text : k \in Mentions(text[i])})

\* (body.match(/```/g) || []).length
FenceCount(body) == Cardinality({i \in DOMAIN body : body[i] = CodeFence})

\* architectCount *= 2
ArchitectWeight == 2
ArchitectThreshold == 3

\* architectCount without the weighting
architectCount_Unweighted(details) ==
    KeywordCount(details.title, architectureKeywords)
    + KeywordCount(details.body, architectureKeywords)

\* architectCount after the weighting
architectCount(details) ==
    ArchitectWeight * (KeywordCount(details.title, architectureKeywords)
                       + KeywordCount(details.body, architectureKeywords))

\* twice patcherCount when every code fence counts for a whole code block
TwicePatcherCount_FenceIsBlock(details) ==
    2 * (KeywordCount(details.title, patcherKeywords)
         + KeywordCount(details.body, patcherKeywords))
    + 2 * FenceCount(details.body)

\* twice patcherCount: a code fence counts for half a code block
TwicePatcherCount(details) ==
    2 * (KeywordCount(details.title, patcherKeywords)
         + KeywordCount(details.body, patcherKeywords))
    + FenceCount(details.body)

\* ModeSelector.analyzeIssueForMode
analyzeIssueForMode(details) ==
    LET labelResult == selectModeFromLabels(details.labels)
    IN IF labelResult.found THEN labelResult
       ELSE IF 2 * architectCount(details) > TwicePatcherCount(details)
       THEN IF architectCount(details) > ArchitectThreshold
            THEN [found |-> TRUE, primaryMode |-> "architect", secondaryMode |-> "patcher",
                  needsMultiPass |-> TRUE]
            ELSE [found |-> TRUE, primaryMode |-> "architect", secondaryMode |-> "",
                  needsMultiPass |-> FALSE]
       ELSE [found |-> TRUE, primaryMode |-> "patcher", secondaryMode |-> "",
             needsMultiPass |-> FALSE]

\* PATCH_MULTIPASS_SEQUENCE settings that are explored
ConfigChoices ==
    {[defaultMode |-> mode, defaultMultiPassSequence |-> sequence] :
        mode \in {"patcher"},
        sequence \in {<<"architect", "patcher">>, <<"architect", "hybrid:security">>,
                      <<"patcher", "architect">>}}

\* issues that are explored
TitleChoices == {<<>>, <<"Redesign">>, <<"Refactor the framework">>, <<"Fix bug">>}
BodyChoices == {<<>>, <<"minor issue">>, <<"Overhaul the architecture">>,
                <<CodeFence, "typo", CodeFence>>, <<"Crash with an error", CodeFence>>,
                <<"Redesign", CodeFence, CodeFence, CodeFence>>}
IssueLabelChoices == {<<>>, <<"question">>, <<"bugfix", "refactor">>, <<"refactor", "bugfix">>,
                      <<"security", "minor-fix">>, <<"multipass", "refactor">>,
                      <<"patchmycode:multipass">>, <<"multipass", "question">>,
                      <<"multipass", "bugfix">>, <<"multipass", "security">>}
IssueChoices == {[title |-> t, body |-> b, labels |-> l] :
                    t \in TitleChoices, b \in BodyChoices, l \in IssueLabelChoices}

\* comment bodies that are explored
CommentChoices ==
    {<<"/fix">>, <<"/analyze">>, <<"thanks">>, <<"/mode">>,
     <<"/mode", " ", "architect">>, <<"/mode", " ", " ", "Architect", " ">>,
     <<"/mode", " ", "patcher">>, <<"/mode", " ", "multipass">>,
     <<"/mode", " ", "architect", "+", "patcher">>,
     <<"/mode", " ", "hybrid:", "security">>, <<"/mode", " ", "hybrid:", "custom">>,
     <<"/mode", " ", "foo">>, <<"/mode", " ", "foo", "+", "bar">>,
     <<"/mode", " ", "architect", "+">>}

\* [config.triggerLabel].concat(config.additionalTriggerLabels)
triggerLabels == {"patchmycode:fix", "patchmycode:architect", "patchmycode:patcher"}
AddedLabelChoices == {"patchmycode:fix", "bugfix"}

(* modeSelector.selectModeFromLabels(labels) *)
CallSelectModeFromLabels ==
    /\ modeResult.by = "none"
    /\ modeResult' = [by |-> "selectModeFromLabels",
                      result |-> selectModeFromLabels(issueDetails.labels)]
    /\ UNCHANGED <<supVars, fixVars, seqVars, promptVars, parVars, config, issueDetails,
                   comment, replies, fixRuns>>

(* modeSelector.selectModeFromCommand(command) *)
CallSelectModeFromCommand ==
    /\ modeResult.by = "none"
    /\ modeResult' = [by |-> "selectModeFromCommand", result |-> selectModeFromCommand(comment)]
    /\ UNCHANGED <<supVars, fixVars, seqVars, promptVars, parVars, config, issueDetails,
                   comment, replies, fixRuns>>

(* modeSelector.analyzeIssueForMode(issueDetails) *)
CallAnalyzeIssueForMode ==
    /\ modeResult.by = "none"
    /\ modeResult' = [by |-> "analyzeIssueForMode", result |-> analyzeIssueForMode(issueDetails)]
    /\ UNCHANGED <<supVars, fixVars, seqVars, promptVars, parVars, config, issueDetails,
                   comment, replies, fixRuns>>

\* github.addIssueComment(body); when it rejects the catch block posts the error
AddIssueComment(body) ==
    \E posted \in BOOLEAN : replies' = Append(replies, IF posted THEN body ELSE "error")

(* app.on('issue_comment.created') *)
IssueCommentCreated ==
    /\ modeResult.by = "none"
    /\ IF StartsWith(comment, "/mode") \/ StartsWith(comment, "/analyze")
       THEN IF StartsWith(comment, "/analyze")
            THEN /\ modeResult' = [by |-> "issue_comment.created",
                                   result |-> analyzeIssueForMode(issueDetails)]
                 /\ AddIssueComment("analysis")
                 /\ UNCHANGED fixRuns
            ELSE IF StartsWith(comment, "/mode")
            THEN /\ modeResult' = [by |-> "issue_comment.created",
                                   result |-> selectModeFromCommand(comment)]
                 /\ AddIssueComment(IF selectModeFromCommand(comment).found
                                    THEN "mode set" ELSE "invalid mode command")
                 /\ UNCHANGED fixRuns
            ELSE /\ modeResult' = [by |-> "issue_comment.created", result |-> NoSelection]
                 /\ IF comment = <<"/fix">>
                    THEN fixRuns' = fixRuns + 1
                    ELSE UNCHANGED fixRuns
                 /\ UNCHANGED replies
       ELSE /\ modeResult' = [by |-> "issue_comment.created", result |-> NoSelection]
            /\ UNCHANGED <<replies, fixRuns>>
    /\ UNCHANGED <<supVars, fixVars, seqVars, promptVars, parVars, config, issueDetails, comment>>

(* app.on('issues.labeled'): a trigger label starts processIssueWithSmartMode, *)
(* which hands the labels of the issue to processor.process                  *)
IssuesLabeled ==
    /\ fixRuns = 0
    /\ modeResult.by \in {"none", "issue_comment.created"}
    /\ \E label \in AddedLabelChoices :
        IF label \in triggerLabels
        THEN /\ fixRuns' = fixRuns + 1
             /\ issueLabels' = Append(issueDetails.labels, label)
             /\ seqPc' = "process"
        ELSE UNCHANGED <<fixRuns, issueLabels, seqPc>>
    /\ UNCHANGED <<supVars, fixVars, promptVars, parVars, config, issueDetails, comment,
                   modeResult, replies, authToken, enableMultiPass, primaryResult,
                   secondaryResult, processResult, progressComments, initCalls, tempDirs>>

InitSelect ==
    /\ pc = "idle"
    /\ now = 0
    /\ timers = [h \in TimerHandles |-> Idle]
    /\ graceTimers = {}
    /\ cleared = [h \in TimerHandles |-> 0]
    /\ firedAfterClose = FALSE
    /\ aiderProcess = "none"
    /\ restartProcess = "none"
    /\ lastActivity = 0
    /\ consecutiveHealthChecks = 0
    /\ exitDueToUpgrade = FALSE
    /\ noticeSeen = FALSE
    /\ restartOutput = FALSE
    /\ pendingProbes = 0
    /\ signals = <<>>
    /\ spawns = <<>>
    /\ exitCode = NoCode
    /\ timeoutSecs = DefaultTimeoutSecs
    /\ frame = NoFrame
    /\ uniqueBranchName = NoText
    /\ workTree = EmptyTree
    /\ stagedChanges = <<>>
    /\ result = NoPatchResult
    /\ commands = <<>>
    /\ remoteBranches = {<<"main">>}
    /\ authToken = NoToken
    /\ issueLabels = <<>>
    /\ enableMultiPass = TRUE
    /\ seqPc = "returned"
    /\ primaryResult = NoPatchResult
    /\ secondaryResult = NoPatchResult
    /\ processResult = NoProcessResult
    /\ progressComments = 0
    /\ initCalls = <<>>
    /\ tempDirs = <<>>
    /\ stdinWritable = TRUE
    /\ chunks = <<>>
    /\ sends = <<>>
    /\ stdinWrites = <<>>
    /\ processCwd = <<"appDir">>
    /\ invocations = <<>>
    /\ executed = <<>>
    /\ config \in ConfigChoices
    /\ issueDetails \in IssueChoices
    /\ comment \in CommentChoices
    /\ modeResult = NoModeResult
    /\ replies = <<>>
    /\ fixRuns = 0

NextSelect ==
    \/ CallSelectModeFromLabels
    \/ CallSelectModeFromCommand
    \/ CallAnalyzeIssueForMode
    \/ IssueCommentCreated
    \/ IssuesLabeled

SpecSelect == InitSelect /\ [][NextSelect]_vars

----------------------------------------------------------------------------
(* Properties of fixIssue and of the sequencer (checked under Spec) *)

\* C1: with a credential supplied, the message of the result that fixIssue
\* returns does not contain the credential.
C1_MessageFreeOfCredential ==
    (authToken # NoToken /\ result.kind = "returned") => ~Contains(result.message, authToken)

\* C2: the base branch handed to the secondary pass is the branch the primary
\* pass reported as produced (the one it committed to and pushed).
C2_SecondaryBaseIsPrimaryBranch ==
    seqPc = "secondary_wait" => frame.baseBranch = primaryResult.branchName

\* C3: once the primary pass has returned success, every result the sequencer
\* returns contains all of the primary pass's touched files.
C3_PrimaryChangesKept ==
    (primaryResult.kind = "returned" /\ primaryResult.success /\ processResult.kind = "returned")
        => Range(primaryResult.changes) \subseteq Range(processResult.changes)

----------------------------------------------------------------------------
(* Properties of the supervisor (checked under SpecSup) *)

SigIdx == DOMAIN signals

\* C4: every agent subprocess that fixIssue waits on, the first one and the one
\* restarted after an upgrade, has an armed timer (hard timeout or absolute
\* maximum) that will signal it if it does not exit by itself.
C4_EverySubprocessWatched ==
    (aiderProcess = "running" \/ restartProcess = "running")
        => (timers["timeout"] # Idle \/ timers["absoluteMaxTimeout"] # Idle)

\* C5: when the health check escalates after 5 unanswered probes, the subprocess
\* receives SIGTERM exactly once, and the health check's SIGKILL comes exactly
\* one grace period after it.
C5_SigtermExactlyOnce ==
    (\E i \in SigIdx : signals[i].by = "healthCheck")
        => /\ Cardinality({i \in SigIdx : signals[i].sig = "SIGTERM"}) = 1
           /\ \A j \in SigIdx :
                (signals[j].by = "healthCheck" /\ signals[j].sig = "SIGKILL")
                    => \E i \in SigIdx : /\ signals[i].by = "healthCheck"
                                         /\ signals[i].sig = "SIGTERM"
                                         /\ signals[j].at = signals[i].at + GracePeriodMs

\* C6: once one timer has requested the termination of the subprocess, no other
\* timer sends it a further signal.
C6_NoFurtherTerminateSignal ==
    \A i, j \in SigIdx : signals[i].by = signals[j].by

\* C7: every termination starts with SIGTERM, and SIGKILL is sent whenever the
\* process has outlived the grace period after the SIGTERM.
C7_GracefulThenForceful ==
    /\ \A j \in SigIdx :
         signals[j].sig = "SIGKILL"
            => \E i \in SigIdx : i < j /\ signals[i].sig = "SIGTERM" /\ signals[i].by = signals[j].by
    /\ \A i \in SigIdx :
         (signals[i].sig = "SIGTERM" /\ aiderProcess = "running" /\ now > signals[i].at + GracePeriodMs)
            => \E j \in SigIdx : j > i /\ signals[j].sig = "SIGKILL"

\* C8: on the exit of the subprocess each of the four timer handles is cleared
\* exactly once (and not before), and none of their callbacks runs afterwards.
C8_TimersClearedOnceOnExit ==
    /\ \A h \in TimerHandles : cleared[h] = IF aiderProcess = "closed" THEN 1 ELSE 0
    /\ aiderProcess = "closed" => \A h \in TimerHandles : timers[h] = Idle
    /\ ~firedAfterClose

\* the subprocess was terminated by a timer, has exited, and time went on
C8_Witness ==
    /\ aiderProcess = "closed"
    /\ \E i \in SigIdx : signals[i].delivered /\ now > signals[i].at
    /\ \A h \in TimerHandles : cleared[h] = 1

\* C9: a subprocess that exits after a timer has signalled it is not spawned again.
C9_NoRespawnAfterTermination ==
    (\E i \in SigIdx : signals[i].delivered) => Len(spawns) <= 1

----------------------------------------------------------------------------
(* Properties of the prompt answers (checked under SpecAnswer) *)

\* the chunk matches at least one prompt pattern
IsPrompt(chunk) == CriticalEditPrompt(chunk) \/ Matching(chunk) # {}

\* the write calls that put a response line for chunk number c on the input stream
AnswerLines(c) ==
    {i \in DOMAIN stdinWrites :
        stdinWrites[i].for = c /\ stdinWrites[i].text \in {<<"y", "\n">>, <<"n", "\n">>}}

\* the response to chunk number c has not been written yet
Answering(c) == \E k \in DOMAIN sends : sends[k].for = c /\ sends[k].stage \in {"delay", "cleared"}

\* C11: for every chunk that matches at least one prompt pattern exactly one
\* response line is written to the input of the agent: none before the send
\* has run, one afterwards, never two, whatever the writes return.
C11_OneResponsePerChunk ==
    \A c \in DOMAIN chunks :
        IsPrompt(chunks[c]) => Cardinality(AnswerLines(c)) = IF Answering(c) THEN 0 ELSE 1

\* C12: when the first matcher that recognises a chunk is a low-priority one
\* (a generic question or a trailing catch-all), the response is "y" if the
\* chunk mentions edit, save, apply or change, and "n" otherwise.
C12_DeclineUnlessEditing ==
    \A k \in DOMAIN sends :
        (sends[k].caller = "handlePrompt"
            /\ Min(Matching(chunks[sends[k].for])) > Len(NamedMatchers))
        => sends[k].input = IF MentionsEditing(chunks[sends[k].for]) THEN "y" ELSE "n"

\* C15: the writes of one response (the clearing backspaces and the answer
\* line) are adjacent on the input stream: no other write comes between them.
C15_WritesSerialized ==
    \A i, j \in DOMAIN stdinWrites :
        (i < j /\ stdinWrites[i].send # 0 /\ stdinWrites[i].send = stdinWrites[j].send)
            => j = i + 1

----------------------------------------------------------------------------
(* Properties of the prompt-answering supervisor (checked under SpecPrompt) *)

\* the chunks whose response line did not reach the agent
FailedAnswers == {stdinWrites[i].for : i \in {j \in DOMAIN stdinWrites :
                     stdinWrites[j].for # 0 /\ ~stdinWrites[j].delivered}}

\* the inactivity after which the health check has escalated a stuck process:
\* one interval to notice, MaxHealthChecks probes, and the tick that terminates
StuckEscalationMs == (MaxHealthChecks + 2) * HealthCheckIntervalMs

\* C14: when the answers to MaxChunks prompts could not be written and the
\* process has stayed alive and silent for as long as it takes to escalate a
\* stuck process, the health check has sent it SIGTERM.
C14_WriteFailuresEscalate ==
    (Cardinality(FailedAnswers) >= MaxChunks
        /\ aiderProcess = "running"
        /\ now - lastActivity > StuckEscalationMs)
    => \E i \in SigIdx : signals[i].by = "healthCheck" /\ signals[i].sig = "SIGTERM"

----------------------------------------------------------------------------
(* The probe counter (checked under SpecSup) *)

\* C13: every output of the agent, which is what moves lastActivity, resets
\* the counter of consecutive probes to zero.
C13_AnyOutputResetsCounter ==
    [][lastActivity' # lastActivity => consecutiveHealthChecks' = 0]_vars

----------------------------------------------------------------------------
(* Error handling of fixIssue and of the sequencer (checked under Spec) *)

\* C17: once init() has succeeded fixIssue never throws: whatever fails inside
\* it comes back as a returned result.
C17_FixIssueNeverThrows == result.kind # "thrown"

\* C19: a failure of init() leaves the sequencer as a rejection, on the
\* single-pass path and on the two-pass path alike.
C19_InitFailureIsHardError ==
    Contains(processResult.message, InitFailed[1]) => processResult.kind = "rejected"

\* the sequencer has returned after the primary pass of a two-pass sequence,
\* the last fixIssue invocation, ended in failure
PrimaryFailed ==
    /\ Selection.found /\ Selection.needsMultiPass /\ enableMultiPass
    /\ seqPc = "returned"
    /\ frame.branchName = primaryBranchName
    /\ result.kind \in {"returned", "thrown"} /\ ~result.success

\* C20: when the primary pass fails, the sequencer returns without
\* initialising the secondary pass, without the progress comment, and with
\* modesUsed holding the primary mode only.
C20_PrimaryFailureStopsSequence ==
    PrimaryFailed => /\ initCalls = <<primaryMode>>
                     /\ progressComments = 0
                     /\ processResult.modesUsed = <<primaryMode>>

----------------------------------------------------------------------------
(* The progress callback (checked under SpecFix) *)

\* C18: whatever the progressCallback does, fixIssue never throws its error
\* and never returns a result made from it.
C18_CallbackNeverFailsRun == ~Contains(result.message, CallbackError[1])

----------------------------------------------------------------------------
(* Concurrent invocations (checked under SpecPar) *)

\* C16: every version-control command of an invocation that works on its
\* checkout (fetch, checkout, add, commit, push) runs in the working directory
\* of that invocation.
C16_CommandsInOwnDirectory ==
    \A n \in DOMAIN executed :
        executed[n].args[1] # "clone" => executed[n].cwd = IssueDirOf(executed[n].by)

----------------------------------------------------------------------------
(* The aggregate result of a two-pass sequence (checked under Spec) *)

BothPassesReturned ==
    /\ seqPc = "returned"
    /\ primaryResult.kind = "returned"
    /\ secondaryResult.kind = "returned"

DuplicateFree(list) == Cardinality(Range(list)) = Len(list)

\* C21: when both passes of a two-pass sequence have returned a result, the
\* aggregate list of touched files has no duplicates and holds exactly the
\* files of either pass, whether the secondary pass succeeded or not; when it
\* did not, the aggregate success flag is false.
C21_AggregateIsUnion ==
    BothPassesReturned =>
        /\ DuplicateFree(processResult.changes)
        /\ Range(processResult.changes) =
             Range(primaryResult.changes) \cup Range(secondaryResult.changes)
        /\ ~secondaryResult.success => ~processResult.success

\* both passes succeeded and touched a common file
C21_Witness ==
    /\ BothPassesReturned
    /\ secondaryResult.success
    /\ Range(primaryResult.changes) \cap Range(secondaryResult.changes) # {}
    /\ Range(secondaryResult.changes) \ Range(primaryResult.changes) # {}

----------------------------------------------------------------------------
(* The negative result of fixIssue (checked under SpecFix) *)

\* the agent has exited, fixIssue is over and the diff against HEAD was empty
EndedWithEmptyDiff ==
    /\ pc \in {"done", "threw"}
    /\ exitCode # NoCode
    /\ stagedChanges = <<>>

----------------------------------------------------------------------------
(* The branch the sequencer reports (checked under Spec) *)

\* the branches the invocation of fixIssue that ran last has pushed
PushedByLastPass == {commands[n][4] : n \in {k \in DOMAIN commands : commands[k][1] = <<"push">>}}

\* C22: whenever the sequencer returns success, the branch name of its result
\* is a branch the last pass pushed, and in a two-pass sequence the last pass
\* was based on the branch the primary pass pushed.
C22_ReportedBranchWasPushed ==
    (seqPc = "returned" /\ processResult.kind = "returned" /\ processResult.success) =>
        /\ processResult.branchName \in PushedByLastPass
        /\ Len(processResult.modesUsed) = 2 => frame.baseBranch = primaryResult.branchName

----------------------------------------------------------------------------
(* Mode selection (checked under SpecSelect) *)

CatalogTokens == {ModeToken(ModeCatalog[i]) : i \in DOMAIN ModeCatalog}

\* a catalog mode, the multipass keyword, or two catalog modes joined by "+"
Recognised(token) ==
    \/ token \in CatalogTokens
    \/ token = <<"multipass">>
    \/ \E a, b \in CatalogTokens : token = a \o <<"+">> \o b

\* C24: selectModeFromCommand returns a selection only for a command whose
\* second token is a recognised mode token; for every other command it
\* returns none.
C24_UnrecognisedTokenYieldsNone ==
    (modeResult.by = "selectModeFromCommand" /\ modeResult.result.found) =>
        /\ Len(Split(comment)) >= 2
        /\ Recognised(LowerCased(Split(comment)[2]))

FixedCatalogOrder ==
    <<"architect", "patcher", "hybrid:security", "hybrid:performance", "hybrid:typescript">>

\* positions in the fixed order of the modes whose label set intersects the labels
Intersecting(labels) ==
    {i \in DOMAIN FixedCatalogOrder : modeLabels[FixedCatalogOrder[i]] \cap Range(labels) # {}}

FirstIntersecting(labels) == FixedCatalogOrder[Min(Intersecting(labels))]

Reorderings(labels) ==
    {[i \in DOMAIN labels |-> labels[f[i]]] : f \in Permutations(DOMAIN labels)}

\* C25: selectModeFromLabels returns the first mode of the fixed catalog order
\* whose label set intersects the labels, and returns the same result for
\* every order of the same labels.
C25_FirstCatalogModeWins ==
    modeResult.by = "selectModeFromLabels" =>
        /\ Intersecting(issueDetails.labels) # {} =>
              /\ modeResult.result.found
              /\ modeResult.result.primaryMode = FirstIntersecting(issueDetails.labels)
        /\ \A reordered \in Reorderings(issueDetails.labels) :
              selectModeFromLabels(reordered) = modeResult.result

\* the labels of two modes, the label of the later mode first
C25_Witness ==
    /\ modeResult.by = "selectModeFromLabels"
    /\ Cardinality(Intersecting(issueDetails.labels)) >= 2
    /\ issueDetails.labels[1] \notin modeLabels[FirstIntersecting(issueDetails.labels)]

SequencingMarkers == {"multipass", "patchmycode:multipass"}

\* C26: when the first matching mode is architect and a sequencing marker is
\* among the labels, the selection needs two passes and its secondary mode is
\* the second element of the configured default sequence.
C26_SecondaryIsDefaultSecondStage ==
    (/\ modeResult.by = "selectModeFromLabels"
     /\ Intersecting(issueDetails.labels) # {}
     /\ FirstIntersecting(issueDetails.labels) = "architect"
     /\ Range(issueDetails.labels) \cap SequencingMarkers # {}) =>
        /\ modeResult.result.needsMultiPass
        /\ modeResult.result.secondaryMode = config.defaultMultiPassSequence[2]

\* C27: when no catalog mode matches, a sequencing marker yields the
\* configured default two-mode sequence, and without a marker the result is
\* none.
C27_MarkerFallsBackToDefaultSequence ==
    (modeResult.by = "selectModeFromLabels" /\ Intersecting(issueDetails.labels) = {}) =>
        IF Range(issueDetails.labels) \cap SequencingMarkers # {}
        THEN modeResult.result = [found |-> TRUE,
                                  primaryMode |-> config.defaultMultiPassSequence[1],
                                  secondaryMode |-> config.defaultMultiPassSequence[2],
                                  needsMultiPass |-> TRUE]
        ELSE ~modeResult.result.found

\* the long marker alone, under a sequence other than the default one
C27_Witness ==
    /\ modeResult.by = "selectModeFromLabels"
    /\ issueDetails.labels = <<"patchmycode:multipass">>
    /\ config.defaultMultiPassSequence = <<"patcher", "architect">>
    /\ modeResult.result.primaryMode = "patcher"

\* A: twice the architectural keywords present in the title and in the body
ArchitecturalScore ==
    2 * (KeywordCount(issueDetails.title, architectureKeywords)
         + KeywordCount(issueDetails.body, architectureKeywords))

\* 2 x P: the localized-fix keywords present, and half a point per code fence
TwiceLocalizedScore ==
    2 * (KeywordCount(issueDetails.title, patcherKeywords)
         + KeywordCount(issueDetails.body, patcherKeywords))
    + FenceCount(issueDetails.body)

\* C28: for an issue whose labels select no mode, analyzeIssueForMode returns
\* architect then patcher exactly when A > P and A > 3, a single architect
\* pass exactly when A > P and A <= 3, and the single patcher mode otherwise.
C28_ScoresDecideMode ==
    (modeResult.by = "analyzeIssueForMode" /\ ~selectModeFromLabels(issueDetails.labels).found) =>
        modeResult.result =
            IF 2 * ArchitecturalScore > TwiceLocalizedScore /\ ArchitecturalScore > 3
            THEN [found |-> TRUE, primaryMode |-> "architect", secondaryMode |-> "patcher",
                  needsMultiPass |-> TRUE]
            ELSE IF 2 * ArchitecturalScore > TwiceLocalizedScore
            THEN [found |-> TRUE, primaryMode |-> "architect", secondaryMode |-> "",
                  needsMultiPass |-> FALSE]
            ELSE [found |-> TRUE, primaryMode |-> "patcher", secondaryMode |-> "",
                  needsMultiPass |-> FALSE]

\* a tie of the two scores, resolved to patcher
C28_Witness ==
    /\ modeResult.by = "analyzeIssueForMode"
    /\ ~selectModeFromLabels(issueDetails.labels).found
    /\ ArchitecturalScore > 0
    /\ 2 * ArchitecturalScore = TwiceLocalizedScore
    /\ modeResult.result.primaryMode = "patcher"

\* C30: an issue comment whose body is exactly "/fix" starts a fix run.
C30_FixCommentStartsRun ==
    (modeResult.by = "issue_comment.created" /\ comment = <<"/fix">>) => fixRuns = 1

----------------------------------------------------------------------------
(* The passes the sequencer runs (checked under Spec) *)

NeedsSequencing == Selection.found /\ Selection.needsMultiPass /\ enableMultiPass

\* C29: the sequencer runs exactly one pass, in the default mode, when the
\* selector resolves nothing, and exactly one pass, in the resolved primary
\* mode, when the selection needs no sequencing or sequencing is disabled; a
\* second pass is started only when the selection needs sequencing,
\* sequencing is enabled and the primary pass has succeeded.
C29_PassesFollowSelection ==
    /\ seqPc = "returned" =>
          /\ ~Selection.found => initCalls = <<defaultMode>>
          /\ (Selection.found /\ ~NeedsSequencing) => initCalls = <<Selection.primaryMode>>
    /\ frame # NoFrame => frame.mode \in Range(initCalls)
    /\ Len(initCalls) <= 2
    /\ Len(initCalls) = 2 =>
          /\ NeedsSequencing
          /\ primaryResult.kind = "returned"
          /\ primaryResult.success

\* a selection that needs sequencing, run as one pass because sequencing is disabled
C29_Witness ==
    /\ seqPc = "returned"
    /\ Selection.found /\ Selection.needsMultiPass /\ ~enableMultiPass
    /\ initCalls = <<Selection.primaryMode>>
    /\ processResult.success

----------------------------------------------------------------------------
(* The mode of a fix run started by a webhook (checked under SpecSelect) *)

\* the modes processor.process runs, from the labels it was handed
RunModes == IF NeedsSequencing THEN modes ELSE <<singleMode>>

\* a "/mode M" comment was answered with "Mode set to M"
ModeAcknowledged ==
    /\ modeResult.by = "issue_comment.created"
    /\ StartsWith(comment, "/mode")
    /\ modeResult.result.found
    /\ "mode set" \in Range(replies)

\* C31: the fix run that follows an acknowledged "/mode M" comment uses mode
\* M, and the secondary mode of the command if it named one.
C31_RunUsesCommandMode ==
    (ModeAcknowledged /\ fixRuns = 1) =>
        /\ ModeToken(RunModes[1]) = modeResult.result.primaryMode
        /\ modeResult.result.secondaryMode # <<>> =>
              /\ Len(RunModes) = 2
              /\ ModeToken(RunModes[2]) = modeResult.result.secondaryMode

\* the one or two modes of a selection
ModesOf(selection) ==
    IF selection.needsMultiPass
    THEN <<selection.primaryMode, selection.secondaryMode>>
    ELSE <<selection.primaryMode>>

\* C32: for an issue whose labels match no catalog mode and carry no
\* sequencing marker, the fix run uses the mode or the two modes that
\* analyzeIssueForMode returns for the title and the body.
C32_RunUsesContentAnalysis ==
    (fixRuns = 1 /\ ~selectModeFromLabels(issueLabels).found) =>
        RunModes = ModesOf(analyzeIssueForMode([issueDetails EXCEPT !.labels = issueLabels]))

----------------------------------------------------------------------------
(* Temporary directories of the passes (checked under Spec) *)

\* C33: once process() has returned or thrown, every temporary directory
\* that init() created for one of its passes has been removed.
C33_TempDirsRemoved == seqPc = "returned" => tempDirs = <<>>

----------------------------------------------------------------------------
(* The outcome of fixIssue (checked under SpecFix) *)

\* the push command of this run has succeeded, hence add and commit before it
Pushed == uniqueBranchName \in remoteBranches

\* C34: fixIssue returns success = true exactly when the diff taken after the
\* agent run is non-empty and the add, commit and push commands have all
\* succeeded, whatever the exit code of the agent was.
C34_SuccessIffChangesPushed ==
    (pc = "done" /\ result.kind = "returned") =>
        (result.success <=> (stagedChanges # <<>> /\ Pushed))

\* C35: for every successful run the list of touched files is the set of
\* files in the pushed commit: no file is committed without being listed and
\* no listed file is missing from the commit.
C35_ChangesAreCommittedFiles ==
    (pc = "done" /\ result.kind = "returned" /\ result.success) =>
        Range(result.changes) = workTree.committed

----------------------------------------------------------------------------
(* Single-pass selections from labels (checked under SpecSelect) *)

\* C36: when the first matching catalog mode is patcher or a hybrid mode,
\* selectModeFromLabels returns a single-pass selection with no secondary
\* mode, marker or not; a two-stage selection from labels has architect or
\* the first element of the default sequence as its primary mode.
C36_OnlyArchitectIsSequenced ==
    modeResult.by = "selectModeFromLabels" =>
        /\ (/\ Intersecting(issueDetails.labels) # {}
            /\ \/ FirstIntersecting(issueDetails.labels) = "patcher"
               \/ IsHybrid(FirstIntersecting(issueDetails.labels))) =>
              /\ modeResult.result.found
              /\ ~modeResult.result.needsMultiPass
              /\ modeResult.result.secondaryMode = ""
        /\ modeResult.result.needsMultiPass =>
              modeResult.result.primaryMode \in {"architect", defaultMultiPassSequence[1]}

\* a marker next to the label of patcher, with a default sequence that
\* starts with another mode
C36_Witness ==
    /\ modeResult.by = "selectModeFromLabels"
    /\ Range(issueDetails.labels) \cap SequencingMarkers # {}
    /\ Intersecting(issueDetails.labels) # {}
    /\ FirstIntersecting(issueDetails.labels) = "patcher"
    /\ defaultMultiPassSequence[1] # "patcher"
    /\ ~modeResult.result.needsMultiPass

----------------------------------------------------------------------------
(* Unpaired code fences in the analysis (checked under SpecSelect) *)

\* twice patcherCount with Math.floor(fences / 2) code blocks
TwicePatcherCountOfWholeBlocks(details) ==
    2 * (KeywordCount(details.title, patcherKeywords)
         + KeywordCount(details.body, patcherKeywords))
    + 2 * (FenceCount(details.body) \div 2)

\* the analysis with whole code blocks only
AnalysisOfWholeBlocks(details) ==
    LET labelResult == selectModeFromLabels(details.labels)
    IN IF labelResult.found THEN labelResult
       ELSE IF 2 * architectCount(details) > TwicePatcherCountOfWholeBlocks(details)
       THEN IF architectCount(details) > ArchitectThreshold
            THEN [found |-> TRUE, primaryMode |-> "architect", secondaryMode |-> "patcher",
                  needsMultiPass |-> TRUE]
            ELSE [found |-> TRUE, primaryMode |-> "architect", secondaryMode |-> "",
                  needsMultiPass |-> FALSE]
       ELSE [found |-> TRUE, primaryMode |-> "patcher", secondaryMode |-> "",
             needsMultiPass |-> FALSE]

\* C37: the selection of analyzeIssueForMode is the selection it would make
\* with floor(fences / 2) code blocks: an unpaired fence changes neither the
\* mode nor the decision between one pass and two.
C37_UnpairedFenceIsIrrelevant ==
    modeResult.by = "analyzeIssueForMode" =>
        modeResult.result = AnalysisOfWholeBlocks(issueDetails)

\* an odd number of fences where half a point separates the two scores
C37_Witness ==
    /\ modeResult.by = "analyzeIssueForMode"
    /\ ~selectModeFromLabels(issueDetails.labels).found
    /\ FenceCount(issueDetails.body) % 2 = 1
    /\ \/ 2 * architectCount(issueDetails) = TwicePatcherCount(issueDetails) + 1
       \/ 2 * architectCount(issueDetails) + 1 = TwicePatcherCount(issueDetails)

----------------------------------------------------------------------------
(* The badges of the pull request (checked under Spec) *)

\* `/mode ${mode}`
BadgeCommand(mode) == <<"/mode", " ">> \o ModeToken(mode)

\* C38: for every mode name that the sequencer places in modesUsed of a
\* successful result, selectModeFromCommand("/mode " + m) returns a selection
\* whose primary mode is m, so that the badges can be generated.
C38_BadgeOfEveryUsedMode ==
    (processResult.kind = "returned" /\ processResult.success) =>
        \A i \in DOMAIN processResult.modesUsed :
            LET selection == selectModeFromCommand(BadgeCommand(processResult.modesUsed[i]))
            IN /\ selection.found
               /\ selection.primaryMode = ModeToken(processResult.modesUsed[i])

----------------------------------------------------------------------------
(* cleanup() next to another client (checked under SpecPar) *)

\* C39: cleanup() of a PatchClient releases only what that client owns: it
\* terminates the agent subprocess of no other client and removes the
\* working directory of no other client.
C39_CleanupTouchesOwnResourcesOnly ==
    \A i \in Invocations :
        /\ invocations[i].terminatedBy \in {"none", i}
        /\ ~invocations[i].tempDir => invocations[i].position = "cleaned"

----------------------------------------------------------------------------
(* Timers after the exit of the subprocess (checked under SpecSup) *)

\* C40: once the 'close' event of the subprocess has been handled, no timer
\* that was created for it is armed any more, the 5 second follow-up of the
\* health check's SIGTERM included.
C40_NoTimerArmedAfterClose ==
    aiderProcess = "closed" =>
        /\ \A h \in TimerHandles : timers[h] = Idle
        /\ graceTimers = {}

====
